---- MODULE Spec2Model ----
(***************************************************************************)
(* Model of the random_audit package of aviator-monitor, of the trend      *)
(* sweep script, of the collector and of the live monitor.                 *)
(*                                                                         *)
(*   random_audit/trend.py : to_categories, class_frequencies,             *)
(*                           p_high_after_k_lows, p_high_after_pattern,    *)
(*                           sliding_signal_k_lows            (Spec)       *)
(*   random_audit/stats.py : _to_numeric, dist_summary,                    *)
(*                           chi_square_uniform, ks_test_scaled_uniform,   *)
(*                           runs_test, runs_up_down, acf, ljung_box,      *)
(*                           jarque_bera, bds_test            (SpecStats)  *)
(*   scripts/run_trend_sweep.py, random_audit/trend_stats.py :             *)
(*                           main, stats_table_for_cuts       (SpecSweep)  *)
(*   random_audit/cli.py, random_audit/core.py :                           *)
(*                           main, compute_basic_metrics      (SpecCli)    *)
(*   random_audit/core.py  : _shannon_entropy_bits            (SpecStats)  *)
(*   random_audit/stats.py : bds_test called repeatedly       (SpecBds)    *)
(*   random_audit/trend_stats.py :                                         *)
(*                           stats_table_for_cuts        (SpecTrendStats)  *)
(*   collector.py          : main                         (SpecCollector)  *)
(*   live_monitor.py       : main                           (SpecMonitor)  *)
(*                                                                         *)
(* The functions of the package are pure functions of their arguments.     *)
(* Under Spec and SpecStats a behaviour is one call: Init draws the        *)
(* function and its arguments, the call action applies the function as     *)
(* the code computes it and stores what the caller gets back (a value, or  *)
(* the exception raised).  Under SpecSweep and SpecCli a behaviour is one  *)
(* run of a main program, one action per section of it.  Under SpecBds a   *)
(* behaviour is a process that calls bds_test again and again; under       *)
(* SpecCollector and SpecMonitor it is the polling loop of the program     *)
(* with the steps of its surroundings (rounds ending, rows appended).      *)
(*                                                                         *)
(* Numbers.  Series values are small integers (exact as floats).  A        *)
(* missing or unparseable entry is the marker NaN, which                   *)
(* pd.to_numeric(errors="coerce") produces and dropna() removes.  A float  *)
(* result that may be undefined is a record [nan, num, den]: the rational  *)
(* num/den, or numpy's nan.  Floats with a square root in them (skewness,  *)
(* Jarque-Bera) are records [nan, rat, coef, rad, den].                    *)
(***************************************************************************)
EXTENDS Integers, Sequences, FiniteSets

VARIABLES pc, op, arg, ret,
          \* locals of cli.main: the metrics and the m of the BDS loop
          metrics_dict, bds_m,
          \* locals of run_trend_sweep.main: the table, its summary and the
          \* position in CUTS
          results, stats_df, cut_i,
          \* the files written to the output directory
          out_dir,
          \* a process calling bds_test repeatedly: the state of numpy's
          \* process-wide generator and a call the caller remembers
          np_random, remembered,
          \* locals of collector.main and the rounds the endpoint has
          seen, endpoint,
          \* locals of live_monitor.main
          last_size, last_alert

cliVars == <<metrics_dict, bds_m>>
sweepVars == <<results, stats_df, cut_i>>
\* the state only the main programs (cli.main, run_trend_sweep.main) use
sessionVars == <<np_random, remembered>>
\* the state of the other programs
collectorVars == <<seen, endpoint>>
monitorVars == <<last_size, last_alert>>
otherVars == <<sessionVars, collectorVars, monitorVars>>
mainVars == <<cliVars, sweepVars, out_dir, otherVars>>

vars == <<pc, op, arg, ret, mainVars>>

(***************************************************************************)
(* Bounds of the model.                                                    *)
(***************************************************************************)
\* longest categorical sequence handed to the two conditional queries
MaxLen == 5
\* largest k of p_high_after_k_lows
MaxK == 3
\* longest explicit pattern of p_high_after_pattern
MaxPat == 2
\* largest horizon
MaxH == 2
\* largest lags of acf and ljung_box
MaxLags == 4
\* largest number of histogram bins
MaxBins == 3
\* longest block of values repeated to make a series of the trend sweep
MaxBlock == 3
\* longest series of the trend sweep
MaxSweepLen == 66
\* largest window and min_k_lows of SlidingConfig
MaxW == 2
\* longest raw series handed to to_categories and runs_test
MaxSeries == 4
\* longest raw series handed to sliding_signal_k_lows
MaxSlide == 5
\* series values are 1..MaxVal
MaxVal == 4

(***************************************************************************)
(* Program constants.                                                      *)
(***************************************************************************)
LOW == 0
MID == 1
HIGH == 2

\* the marker of a missing / unparseable entry after errors="coerce"
NaN == -1

Min(a, b) == IF a <= b THEN a ELSE b
Max(a, b) == IF a >= b THEN a ELSE b

\* Sequences over S of length 0..n
SeqsUpTo(S, n) == UNION {[1..m -> S] : m \in 0..n}

\* Python slice s[a:b] of a sequence, for 0 <= a (indices are 0-based, the
\* end is clamped to len(s) as Python does)
Slice(s, a, b) == SubSeq(s, a + 1, Min(b, Len(s)))

\* np.all(v == c) and np.any(v == c) for an array v and a scalar c
AllEq(v, c) == \A j \in 1..Len(v) : v[j] = c
AnyEq(v, c) == \E j \in 1..Len(v) : v[j] = c

\* a float that may be undefined
Undefined == [nan |-> TRUE, num |-> 0, den |-> 1]
Ratio(a, b) == [nan |-> FALSE, num |-> a, den |-> b]

\* what a caller gets back from a call
NoRet == [status |-> "none"]
Returned(v) == [status |-> "returned", value |-> v]
Raised(e) == [status |-> "raised", exc |-> e]

(***************************************************************************)
(* Numeric coercion                                                        *)
(***************************************************************************)
\* an entry pd.to_numeric cannot parse (a string that is not a number)
Unparseable == -2
\* the floats +inf and -inf (also what the strings "inf" and "-inf" parse to);
\* they compare above and below every value of a series
PosInf == 1000
NegInf == -1000

\* pd.to_numeric(..., errors="coerce") on one entry: what cannot be parsed
\* becomes NaN, every float (NaN and the infinities included) stays
Coerce(v) == IF v = Unparseable THEN NaN ELSE v

\* np.isfinite of an entry
IsFinite(v) == v \notin {NaN, Unparseable, PosInf, NegInf}

\* pd.to_numeric(series, errors="coerce").dropna().astype(float).values
ToNumeric(series) ==
    SelectSeq([i \in 1..Len(series) |-> Coerce(series[i])], LAMBDA v : v # NaN)

(***************************************************************************)
(* trend.py: classifier                                                    *)
(***************************************************************************)
\* mutant: HIGH is taken as strictly above high_th
to_categories_HighStrict(series, low_th, high_th) ==
    LET x == ToNumeric(series)
    IN  [i \in 1..Len(x) |->
           IF x[i] > high_th THEN HIGH
           ELSE IF x[i] >= low_th /\ x[i] < high_th THEN MID ELSE LOW]

\* trend.to_categories: zeros, then the MID mask, then the HIGH mask
to_categories(series, low_th, high_th) ==
    LET x == ToNumeric(series)
        cats0 == [i \in 1..Len(x) |-> LOW]
        cats1 == [i \in 1..Len(x) |->
                    IF x[i] >= low_th /\ x[i] < high_th THEN MID ELSE cats0[i]]
        cats2 == [i \in 1..Len(x) |->
                    IF x[i] >= high_th THEN HIGH ELSE cats1[i]]
    IN  cats2

\* trend.class_frequencies: float((cats == c).sum()) / n for c in (0, 1, 2);
\* the quotient is a Python float over the Python int n = len(cats)
class_frequencies(cats) ==
    LET n == Len(cats)
    IN  IF n = 0 THEN Raised("ZeroDivisionError")
        ELSE Returned([c \in {LOW, MID, HIGH} |->
                         Ratio(Cardinality({i \in 1..n : cats[i] = c}), n)])

(***************************************************************************)
(* trend.py: conditional queries                                           *)
(***************************************************************************)
\* mutant: an empty set of trials reports probability 0 instead of nan
Prob_ZeroWhenNoTrials(hits, total) ==
    IF total > 0 THEN Ratio(hits, total) ELSE Ratio(0, 1)

\* prob = hits/total if total > 0 else np.nan
Prob(hits, total) == IF total > 0 THEN Ratio(hits, total) ELSE Undefined

\* range(k, n - horizon): the indices the scan loops visit (0-based)
ScanRange(n, k, horizon) == {i \in 0..n : k <= i /\ i < n - horizon}

\* mutant: a run of exactly k LOW, with no LOW before it
KLowsBefore_ExactRun(cats, k, i) ==
    AllEq(Slice(cats, i - k, i), LOW) /\ (i - k >= 1 => cats[i - k] # LOW)

\* np.all(cats[i-k:i] == 0)
KLowsBefore(cats, k, i) == AllEq(Slice(cats, i - k, i), LOW)

\* mutant: only the last category before i is compared with the pattern
PatternBefore_LastOnly(cats, patt, i) ==
    Len(patt) >= 1 => cats[i] = patt[Len(patt)]

\* np.all(cats[i-m:i] == patt), elementwise over two arrays of length m
PatternBefore(cats, patt, i) ==
    LET w == Slice(cats, i - Len(patt), i)
    IN  \A j \in 1..Len(patt) : w[j] = patt[j]

\* mutant: the horizon starts one round late
HighWithin_FromNext(cats, i, horizon) == AnyEq(Slice(cats, i + 1, i + 1 + horizon), HIGH)

\* np.any(cats[i:i+horizon] == 2)
HighWithin(cats, i, horizon) == AnyEq(Slice(cats, i, i + horizon), HIGH)

\* the for loop of p_high_after_k_lows, from index i on
RECURSIVE KLowsLoop(_, _, _, _, _, _)
KLowsLoop(cats, k, horizon, i, total, hits) ==
    IF i \notin ScanRange(Len(cats), k, horizon)
    THEN <<total, hits>>
    ELSE IF KLowsBefore(cats, k, i)
         THEN KLowsLoop(cats, k, horizon, i + 1, total + 1,
                        IF HighWithin(cats, i, horizon) THEN hits + 1 ELSE hits)
         ELSE KLowsLoop(cats, k, horizon, i + 1, total, hits)

\* trend.p_high_after_k_lows
p_high_after_k_lows(cats, k, horizon) ==
    IF ~(k >= 1 /\ horizon >= 1)
    THEN Raised("AssertionError")
    ELSE LET r == KLowsLoop(cats, k, horizon, k, 0, 0)
         IN  Returned([total |-> r[1], hits |-> r[2], prob |-> Prob(r[2], r[1])])

\* the for loop of p_high_after_pattern, from index i on
RECURSIVE PatternLoop(_, _, _, _, _, _)
PatternLoop(cats, patt, horizon, i, total, hits) ==
    IF i \notin ScanRange(Len(cats), Len(patt), horizon)
    THEN <<total, hits>>
    ELSE IF PatternBefore(cats, patt, i)
         THEN PatternLoop(cats, patt, horizon, i + 1, total + 1,
                          IF HighWithin(cats, i, horizon) THEN hits + 1 ELSE hits)
         ELSE PatternLoop(cats, patt, horizon, i + 1, total, hits)

\* trend.p_high_after_pattern (no parameter check in the code)
p_high_after_pattern(cats, patt, horizon) ==
    LET r == PatternLoop(cats, patt, horizon, Len(patt), 0, 0)
    IN  Returned([total |-> r[1], hits |-> r[2], prob |-> Prob(r[2], r[1])])

(***************************************************************************)
(* trend.py: sliding window                                                *)
(***************************************************************************)
\* the inner loop of sliding_signal_k_lows over the window, from element j on:
\* cur counts the current run of LOW, max_streak the longest seen
RECURSIVE StreakLoop(_, _, _, _)
StreakLoop(win, j, cur, max_streak) ==
    IF j > Len(win)
    THEN max_streak
    ELSE IF win[j] = LOW
         THEN StreakLoop(win, j + 1, cur + 1, Max(max_streak, cur + 1))
         ELSE StreakLoop(win, j + 1, 0, max_streak)

\* the outer loop of sliding_signal_k_lows, from index t on
RECURSIVE SlidingLoop(_, _, _, _, _)
SlidingLoop(cats, cfg, t, pos, hits) ==
    IF t \notin ScanRange(Len(cats), cfg.window, cfg.horizon)
    THEN <<pos, hits>>
    ELSE LET win == Slice(cats, t - cfg.window, t)
             max_streak == StreakLoop(win, 1, 0, 0)
         IN  IF max_streak >= cfg.min_k_lows
             THEN SlidingLoop(cats, cfg, t + 1, Append(pos, t),
                              Append(hits, IF HighWithin(cats, t, cfg.horizon)
                                           THEN 1 ELSE 0))
             ELSE SlidingLoop(cats, cfg, t + 1, pos, hits)

RECURSIVE SumSeq(_)
SumSeq(s) == IF s = <<>> THEN 0 ELSE Head(s) + SumSeq(Tail(s))

\* trend.sliding_signal_k_lows (no parameter check in the code)
sliding_signal_k_lows(series, cfg) ==
    LET cats == to_categories(series, cfg.low_th, cfg.high_th)
        r == SlidingLoop(cats, cfg, cfg.window, <<>>, <<>>)
        pos == r[1]
        hits == r[2]
        prob == IF Len(hits) > 0 THEN Ratio(SumSeq(hits), Len(hits)) ELSE Undefined
    IN  Returned([positions |-> pos, hit |-> hits, prob_empirica |-> prob,
                  total_sinais |-> Len(pos)])

(***************************************************************************)
(* The calls of the trend module                                           *)
(***************************************************************************)
Categories == {LOW, MID, HIGH}
\* an entry of a raw series: a number or a missing / unparseable entry
Entries == (1..MaxVal) \cup {NaN}
\* threshold values offered to low_th and high_th (in order, equal, swapped)
Thresholds == {2, 3}

\* values of the series handed to the sliding scan: one below, one between
\* and one above the thresholds
SlideValues == 1..3

\* the literal fixture of the k-lookback query
FixtureCats == <<0, 0, 0, 0, 2, 1, 1, 0, 0, 0, 0, 2>>
FixtureArg == [cats |-> FixtureCats, k |-> 4, horizon |-> 1]

ArgsKLows ==
    [cats : SeqsUpTo(Categories, MaxLen), k : 0..MaxK, horizon : 0..MaxH]
        \cup {FixtureArg}
ArgsPattern ==
    [cats : SeqsUpTo(Categories, MaxLen), patt : SeqsUpTo(Categories, MaxPat),
     horizon : 0..MaxH]
ArgsToCategories ==
    [series : SeqsUpTo(Entries, MaxSeries), low_th : Thresholds, high_th : Thresholds]
ArgsCats == [cats : SeqsUpTo(Categories, MaxLen)]
ArgsSliding ==
    [series : SeqsUpTo(SlideValues, MaxSlide),
     cfg : [window : 0..MaxW, horizon : 0..MaxH, low_th : Thresholds,
            high_th : Thresholds, min_k_lows : 0..MaxW]]

\* a dict / a directory with nothing in it
Empty == <<>>

\* neither the collector nor the monitor is running
NoService ==
    /\ seen = {}
    /\ endpoint = 0
    /\ last_size = -1
    /\ last_alert = Empty

\* no main program is running
NoMain ==
    /\ metrics_dict = Empty
    /\ bds_m = 0
    /\ out_dir = Empty
    /\ results = Empty
    /\ stats_df = Empty
    /\ cut_i = 0
    /\ np_random = 0
    /\ remembered = Empty
    /\ NoService

Init ==
    /\ pc = "call"
    /\ ret = NoRet
    /\ NoMain
    /\ \/ op = "p_high_after_k_lows" /\ arg \in ArgsKLows
       \/ op = "p_high_after_pattern" /\ arg \in ArgsPattern
       \/ op = "to_categories" /\ arg \in ArgsToCategories
       \/ op = "class_frequencies" /\ arg \in ArgsCats
       \/ op = "sliding_signal_k_lows" /\ arg \in ArgsSliding

CallKLows ==
    /\ pc = "call" /\ op = "p_high_after_k_lows"
    /\ ret' = p_high_after_k_lows(arg.cats, arg.k, arg.horizon)
    /\ pc' = "done"
    /\ UNCHANGED <<op, arg, mainVars>>

CallPattern ==
    /\ pc = "call" /\ op = "p_high_after_pattern"
    /\ ret' = p_high_after_pattern(arg.cats, arg.patt, arg.horizon)
    /\ pc' = "done"
    /\ UNCHANGED <<op, arg, mainVars>>

CallToCategories ==
    /\ pc = "call" /\ op = "to_categories"
    /\ ret' = Returned(to_categories(arg.series, arg.low_th, arg.high_th))
    /\ pc' = "done"
    /\ UNCHANGED <<op, arg, mainVars>>

CallClassFrequencies ==
    /\ pc = "call" /\ op = "class_frequencies"
    /\ ret' = class_frequencies(arg.cats)
    /\ pc' = "done"
    /\ UNCHANGED <<op, arg, mainVars>>

CallSliding ==
    /\ pc = "call" /\ op = "sliding_signal_k_lows"
    /\ ret' = sliding_signal_k_lows(arg.series, arg.cfg)
    /\ pc' = "done"
    /\ UNCHANGED <<op, arg, mainVars>>

Next ==
    \/ CallKLows \/ CallPattern \/ CallToCategories \/ CallSliding
    \/ CallClassFrequencies

Spec == Init /\ [][Next]_vars

(***************************************************************************)
(* Claims about the trend module                                           *)
(***************************************************************************)
Done(f) == pc = "done" /\ op = f
\* cats[i] with the code's 0-based index
At(cats, i) == cats[i + 1]

\* the trials of the k-lookback query as the specification states them:
\* k <= i, i + horizon <= n, the k categories before i all LOW
StatedTrials(cats, k, horizon) ==
    {i \in 0..Len(cats) : /\ k <= i
                          /\ i + horizon <= Len(cats)
                          /\ \A j \in (i - k)..(i - 1) : At(cats, j) = LOW}
StatedHit(cats, i, horizon) == \E j \in i..(i + horizon - 1) : At(cats, j) = HIGH

\* C1: p_high_after_k_lows counts as a trial every i with k <= i and
\* i + horizon <= n whose k preceding categories are all LOW, counts a hit
\* exactly for the trials with a HIGH in cats[i..i+horizon-1], and returns
\* total = 2, hits = 2, prob = 1.0 on the fixture.
C1_KLowsCountsStatedTrials ==
    (Done("p_high_after_k_lows") /\ arg.k >= 1 /\ arg.horizon >= 1) =>
        /\ ret.status = "returned"
        /\ ret.value.total = Cardinality(StatedTrials(arg.cats, arg.k, arg.horizon))
        /\ ret.value.hits =
             Cardinality({i \in StatedTrials(arg.cats, arg.k, arg.horizon) :
                            StatedHit(arg.cats, i, arg.horizon)})
        /\ (arg = FixtureArg =>
              /\ ret.value.total = 2
              /\ ret.value.hits = 2
              /\ ret.value.prob = Ratio(2, 2))

IsQuery == op \in {"p_high_after_k_lows", "p_high_after_pattern"}

\* C2: both query forms return 0 <= hits <= total; with total > 0 the
\* probability is hits/total and lies in [0,1]; with total = 0 it is the
\* undefined marker, never 0.
C2_QueryTripleConsistent ==
    (pc = "done" /\ IsQuery /\ ret.status = "returned") =>
        LET v == ret.value
        IN  /\ 0 <= v.hits /\ v.hits <= v.total
            /\ v.total > 0 =>
                 /\ ~v.prob.nan
                 /\ v.prob.den > 0
                 /\ v.prob.num * v.total = v.hits * v.prob.den
                 /\ 0 <= v.prob.num /\ v.prob.num <= v.prob.den
            /\ v.total = 0 => v.prob.nan

C2_Witness ==
    /\ pc = "done" /\ IsQuery /\ ret.status = "returned"
    /\ ret.value.total > 1 /\ ret.value.hits > 0 /\ ret.value.hits < ret.value.total

C2_WitnessUndefined ==
    /\ pc = "done" /\ op = "p_high_after_pattern" /\ ret.status = "returned"
    /\ ret.value.total = 0 /\ ret.value.prob.nan

\* k repetitions of LOW
LowPattern(k) == [j \in 1..k |-> LOW]

\* C3: p_high_after_pattern with pattern = k times LOW returns the triple of
\* p_high_after_k_lows(cats, k, horizon), for k >= 1 and horizon >= 1; for an
\* arbitrary pattern of length m the trials are the indices of the same scan
\* whose m preceding categories equal the pattern element by element.
C3_PatternSameMechanics ==
    (Done("p_high_after_pattern") /\ arg.horizon >= 1) =>
        LET m == Len(arg.patt)
            trials == {i \in ScanRange(Len(arg.cats), m, arg.horizon) :
                         \A j \in 1..m : At(arg.cats, i - m + j - 1) = arg.patt[j]}
        IN  /\ ret.status = "returned"
            /\ ret.value.total = Cardinality(trials)
            /\ ret.value.hits =
                 Cardinality({i \in trials : StatedHit(arg.cats, i, arg.horizon)})
            /\ (m >= 1 /\ arg.patt = LowPattern(m)) =>
                 ret = p_high_after_k_lows(arg.cats, m, arg.horizon)

C3_Witness ==
    /\ Done("p_high_after_pattern") /\ arg.horizon >= 1
    /\ Len(arg.patt) >= 2 /\ arg.patt = LowPattern(Len(arg.patt))
    /\ ret.value.total >= 2 /\ ret.value.hits >= 1
    /\ ret.value.hits < ret.value.total

\* the categories of the series handed to the sliding scan, by the stated
\* mapping (thresholds in order)
StatedCategory(v, low_th, high_th) ==
    IF v < low_th THEN LOW ELSE IF v < high_th THEN MID ELSE HIGH
StatedCats(series, low_th, high_th) ==
    LET x == SelectSeq(series, LAMBDA v : v # NaN)
    IN  [i \in 1..Len(x) |-> StatedCategory(x[i], low_th, high_th)]

\* the longest run of consecutive LOW in cats[a..b-1]
LongestLowRun(cats, a, b) ==
    LET runs == {len \in 0..(b - a) :
                   \E s \in a..(b - len) : \A j \in s..(s + len - 1) : At(cats, j) = LOW}
    IN  CHOOSE len \in runs : \A other \in runs : other <= len

ValidCfg(cfg) ==
    /\ cfg.window >= 1 /\ cfg.horizon >= 1 /\ cfg.min_k_lows >= 1
    /\ cfg.low_th < cfg.high_th
\* the valid positions of the sliding scan: `window` categories before t and
\* `horizon` categories from t on lie inside the sequence
ValidPositions(n, cfg) == {t \in 0..n : cfg.window <= t /\ t + cfg.horizon <= n}

InSeq(s, x) == \E j \in 1..Len(s) : s[j] = x

\* C4: sliding_signal_k_lows emits a signal at t iff the longest run of LOW in
\* cats[t-window..t-1] is >= min_k_lows, and the hit of that signal is 1 iff
\* some category of cats[t..t+horizon-1] is HIGH.
C4_SignalIffLongestRun ==
    (Done("sliding_signal_k_lows") /\ ValidCfg(arg.cfg)) =>
        LET cfg == arg.cfg
            cats == StatedCats(arg.series, cfg.low_th, cfg.high_th)
            res == ret.value
        IN  /\ ret.status = "returned"
            /\ \A t \in ValidPositions(Len(cats), cfg) :
                 InSeq(res.positions, t) <=>
                   LongestLowRun(cats, t - cfg.window, t) >= cfg.min_k_lows
            /\ \A j \in 1..Len(res.positions) :
                 res.hit[j] = IF StatedHit(cats, res.positions[j], cfg.horizon)
                              THEN 1 ELSE 0

\* C5: on an all-LOW sequence with min_k_lows <= window the scan emits a
\* signal at every valid position (window <= t and t + horizon <= n), and
\* every recorded hit is 0.
C5_AllLowSignalsEverywhere ==
    (/\ Done("sliding_signal_k_lows") /\ ValidCfg(arg.cfg)
     /\ arg.cfg.min_k_lows <= arg.cfg.window
     /\ \A j \in 1..Len(arg.series) : arg.series[j] < arg.cfg.low_th) =>
        /\ ret.status = "returned"
        /\ \A t \in ValidPositions(Len(arg.series), arg.cfg) :
             InSeq(ret.value.positions, t)
        /\ \A j \in 1..Len(ret.value.hit) : ret.value.hit[j] = 0

\* C6: for low_th < high_th, to_categories returns one category per valid
\* value, in input order: LOW iff v < low_th, MID iff low_th <= v < high_th,
\* HIGH iff v >= high_th.
C6_CategoriesByThresholds ==
    (Done("to_categories") /\ arg.low_th < arg.high_th) =>
        LET valid == SelectSeq(arg.series, LAMBDA v : v # NaN)
            cats == ret.value
        IN  /\ ret.status = "returned"
            /\ Len(cats) = Len(valid)
            /\ \A i \in 1..Len(valid) :
                 /\ cats[i] \in Categories
                 /\ cats[i] = LOW <=> valid[i] < arg.low_th
                 /\ cats[i] = MID <=> (arg.low_th <= valid[i] /\ valid[i] < arg.high_th)
                 /\ cats[i] = HIGH <=> valid[i] >= arg.high_th

C6_Witness ==
    /\ Done("to_categories") /\ arg.low_th < arg.high_th
    /\ InSeq(arg.series, NaN)
    /\ InSeq(ret.value, LOW) /\ InSeq(ret.value, MID) /\ InSeq(ret.value, HIGH)
    /\ InSeq(arg.series, arg.low_th) /\ InSeq(arg.series, arg.high_th)

CountWhere(s, P(_)) == Cardinality({j \in 1..Len(s) : P(s[j])})

\* C7: for any series and any threshold pair, the numbers of LOW, MID and HIGH
\* labels equal the direct counts of v < low_th, low_th <= v < high_th and
\* v >= high_th.
C7_LabelCountsEqualDirectCounts ==
    (Done("to_categories") /\ ret.status = "returned") =>
        LET x == SelectSeq(arg.series, LAMBDA v : v # NaN)
        IN  /\ CountWhere(ret.value, LAMBDA c : c = LOW) =
                 CountWhere(x, LAMBDA v : v < arg.low_th)
            /\ CountWhere(ret.value, LAMBDA c : c = MID) =
                 CountWhere(x, LAMBDA v : arg.low_th <= v /\ v < arg.high_th)
            /\ CountWhere(ret.value, LAMBDA c : c = HIGH) =
                 CountWhere(x, LAMBDA v : v >= arg.high_th)

\* C8: thresholds out of order (low_th >= high_th), given to to_categories or
\* through SlidingConfig to sliding_signal_k_lows, produce a failure at the
\* boundary instead of a classification.
C8_ThresholdsOutOfOrderRejected ==
    /\ (Done("to_categories") /\ arg.low_th >= arg.high_th) => ret.status = "raised"
    /\ (Done("sliding_signal_k_lows") /\ arg.cfg.low_th >= arg.cfg.high_th) =>
          ret.status = "raised"

\* C9: each entry point of the pattern engine rejects a non-positive horizon,
\* k or window at entry: it returns no value.
C9_NonPositiveParametersRejected ==
    /\ (Done("p_high_after_k_lows") /\ (arg.k <= 0 \/ arg.horizon <= 0)) =>
          ret.status = "raised"
    /\ (Done("p_high_after_pattern") /\ arg.horizon <= 0) => ret.status = "raised"
    /\ (Done("sliding_signal_k_lows") /\ (arg.cfg.window <= 0 \/ arg.cfg.horizon <= 0)) =>
          ret.status = "raised"

(***************************************************************************)
(* stats.py: runs test                                                     *)
(***************************************************************************)
\* np.sort, as np.median and the order statistics use it
RECURSIVE InsertSorted(_, _)
InsertSorted(s, v) ==
    IF s = <<>> THEN <<v>>
    ELSE IF v <= Head(s) THEN <<v>> \o s
         ELSE <<Head(s)>> \o InsertSorted(Tail(s), v)
RECURSIVE NpSort(_)
NpSort(s) == IF s = <<>> THEN <<>> ELSE InsertSorted(NpSort(Tail(s)), Head(s))

\* float(np.median(x)) of a non-empty array: the middle order statistic, or
\* the mean of the two middle ones
Median(x) ==
    LET srt == NpSort(x)
        n == Len(x)
    IN  IF n % 2 = 1 THEN Ratio(srt[(n + 1) \div 2], 1)
        ELSE Ratio(srt[n \div 2] + srt[n \div 2 + 1], 2)

\* float(np.mean(x)) of a non-empty array
Mean(x) == Ratio(SumSeq(x), Len(x))

\* x > thr and x < thr for a number x and a rational thr
Above(v, thr) == v * thr.den > thr.num
Below(v, thr) == v * thr.den < thr.num

\* the cut of runs_test: a number, "median", "mean", or any other string
\* (which falls back to the median)
Threshold(x, cut) ==
    IF cut.kind = "num" THEN Ratio(cut.val, 1)
    ELSE IF cut.kind = "median" THEN Median(x)
    ELSE IF cut.kind = "mean" THEN Mean(x)
    ELSE Median(x)

\* mutant: keep = mask_above & mask_below, which keeps nothing
Binarize_KeepBoth(x, thr) ==
    LET kept == SelectSeq(x, LAMBDA v : Above(v, thr) /\ Below(v, thr))
    IN  [i \in 1..Len(kept) |-> IF Above(kept[i], thr) THEN 1 ELSE 0]

\* mask_above, mask_below, keep, s = np.where(mask_above[keep], 1, 0)
Binarize(x, thr) ==
    LET kept == SelectSeq(x, LAMBDA v : Above(v, thr) \/ Below(v, thr))
    IN  [i \in 1..Len(kept) |-> IF Above(kept[i], thr) THEN 1 ELSE 0]

\* mutant: the changes of symbol are counted, the first run is not
CountRuns_ChangesOnly(s) == Cardinality({i \in 1..(Len(s) - 1) : s[i + 1] # s[i]})

\* 1 + int(np.sum(s[1:] != s[:-1]))
CountRuns(s) == 1 + Cardinality({i \in 1..(Len(s) - 1) : s[i + 1] # s[i]})

\* z = (runs - mu) / sqrt(var) if var > 0 else nan, with
\*   mu  = 1 + 2 n1 n0 / (n1 + n0)
\*   var = 2 n1 n0 (2 n1 n0 - n1 - n0) / ((n1 + n0)^2 (n1 + n0 - 1))
\* kept as the exact rationals runs - mu and var
ZStat(runs, n1, n0) ==
    LET n == n1 + n0
        var_num == 2 * n1 * n0 * (2 * n1 * n0 - n1 - n0)
        var_den == n * n * (n - 1)
    IN  IF var_den # 0 /\ var_num * var_den > 0
        THEN [nan |-> FALSE, dev |-> Ratio(runs * n - n - 2 * n1 * n0, n),
              var |-> Ratio(var_num, var_den)]
        ELSE [nan |-> TRUE]

\* p = 2 * (1 - norm.cdf(abs(z))) if np.isfinite(z) else nan
PValue(z) == IF z.nan THEN [nan |-> TRUE] ELSE [nan |-> FALSE, two_sided_of |-> z]

\* stats.runs_test
runs_test(series, cut) ==
    LET x == ToNumeric(series)
    IN  IF Len(x) = 0
        THEN Returned([runs |-> Undefined, n_above |-> 0, n_below |-> 0,
                       z |-> [nan |-> TRUE], pvalue |-> [nan |-> TRUE], cut |-> cut])
        ELSE LET thr == Threshold(x, cut)
                 s == Binarize(x, thr)
                 n1 == Cardinality({i \in 1..Len(s) : s[i] = 1})
                 n0 == Cardinality({i \in 1..Len(s) : s[i] = 0})
             IN  IF n1 = 0 \/ n0 = 0
                 THEN Returned([runs |-> Ratio(1, 1), n_above |-> n1, n_below |-> n0,
                                z |-> [nan |-> TRUE], pvalue |-> [nan |-> TRUE],
                                cut |-> cut])
                 ELSE LET runs == CountRuns(s)
                          z == ZStat(runs, n1, n0)
                      IN  Returned([runs |-> Ratio(runs, 1), n_above |-> n1,
                                    n_below |-> n0, z |-> z, pvalue |-> PValue(z),
                                    cut |-> cut])

\* mutant: the differences are taken backwards
Diff_Backwards(x) == [i \in 1..(Len(x) - 1) |-> x[i] - x[i + 1]]

\* np.diff(x)
Diff(x) == [i \in 1..(Len(x) - 1) |-> x[i + 1] - x[i]]

\* mutant: zero differences are kept and counted as descents
SignsOfDiffs_ZerosAsDown(x) ==
    LET d == Diff(x)
    IN  [i \in 1..Len(d) |-> IF d[i] > 0 THEN 1 ELSE 0]

\* mask = d != 0, s = (d[mask] > 0).astype(int)
SignsOfDiffs(x) ==
    LET d == Diff(x)
        kept == SelectSeq(d, LAMBDA v : v # 0)
    IN  [i \in 1..Len(kept) |-> IF kept[i] > 0 THEN 1 ELSE 0]

\* stats.runs_up_down
runs_up_down(series) ==
    LET x == ToNumeric(series)
    IN  IF Len(x) < 2
        THEN Returned([runs |-> Undefined, n_up |-> 0, n_down |-> 0,
                       z |-> [nan |-> TRUE], pvalue |-> [nan |-> TRUE]])
        ELSE IF \A i \in 1..Len(Diff(x)) : Diff(x)[i] = 0
        THEN Returned([runs |-> Ratio(1, 1), n_up |-> 0, n_down |-> 0,
                       z |-> [nan |-> TRUE], pvalue |-> [nan |-> TRUE]])
        ELSE LET s == SignsOfDiffs(x)
                 n1 == Cardinality({i \in 1..Len(s) : s[i] = 1})
                 n0 == Cardinality({i \in 1..Len(s) : s[i] = 0})
             IN  IF n1 = 0 \/ n0 = 0
                 THEN Returned([runs |-> Ratio(1, 1), n_up |-> n1, n_down |-> n0,
                                z |-> [nan |-> TRUE], pvalue |-> [nan |-> TRUE]])
                 ELSE LET runs == CountRuns(s)
                          z == ZStat(runs, n1, n0)
                      IN  Returned([runs |-> Ratio(runs, 1), n_up |-> n1,
                                    n_down |-> n0, z |-> z, pvalue |-> PValue(z)])

(***************************************************************************)
(* stats.py: autocorrelation                                               *)
(***************************************************************************)
\* every value of a non-empty array is the same
IsConstant(x) == Len(x) >= 1 /\ \A i \in 1..Len(x) : x[i] = x[1]

\* x - np.mean(x), scaled by n = len(x) to stay in the integers
Centered(x) == [i \in 1..Len(x) |-> Len(x) * x[i] - SumSeq(x)]

\* np.dot(x[:-k], x[k:]) on the centered array (scaled by n^2); both slices
\* are empty when k >= n and the product is then 0
LagDot(xc, k) ==
    SumSeq([i \in 1..Max(Len(xc) - k, 0) |-> xc[i] * xc[i + k]])

\* float(num / var) if var > 0 else np.nan   (num / var = LagDot(k) / LagDot(0))
Rho(xc, k) ==
    IF LagDot(xc, 0) > 0 THEN Ratio(LagDot(xc, k), LagDot(xc, 0)) ELSE Undefined

\* a float the model carries as a name, not as a number
Symbolic(expr) == [nan |-> FALSE, is |-> expr]

\* stats.acf
acf(series, lags) ==
    LET x == ToNumeric(series)
    IN  IF Len(x) = 0
        THEN Returned([lags |-> <<>>, acf |-> <<>>, ci_approx |-> Undefined])
        ELSE LET xc == Centered(x)
                 L == Max(lags, 0)
             IN  Returned([lags |-> [k \in 1..L |-> k],
                           acf |-> [k \in 1..L |-> Rho(xc, k)],
                           ci_approx |-> Symbolic(<<"1.96/sqrt", Len(x)>>)])

RECURSIVE ProdOver(_, _)
\* the product of f[k] over the finite set K
ProdOver(f, K) ==
    IF K = {} THEN 1
    ELSE LET k == CHOOSE j \in K : TRUE IN f[k] * ProdOver(f, K \ {k})

RECURSIVE SumOver(_, _)
SumOver(f, K) ==
    IF K = {} THEN 0
    ELSE LET k == CHOOSE j \in K : TRUE IN f[k] + SumOver(f, K \ {k})

\* 1.0 - chi2.cdf(stat, df): 1.0 when stat <= 0, a number in (0,1) otherwise
ChiSquareUpperTail(stat, df) ==
    IF stat.nan THEN Undefined
    ELSE IF stat.num = 0 \/ (stat.num < 0) # (stat.den < 0) THEN Ratio(1, 1)
    ELSE Symbolic(<<"1 - chi2.cdf", stat, df>>)

\* Q = n (n + 2) * np.nansum([rhos[k-1] ** 2 / (n - k) for k in 1..lags]),
\* for lags < n: the rhos are all nan (nansum = 0.0) or all LagDot(k)/LagDot(0)
LjungBoxQ(xc, lags) ==
    LET n == Len(xc)
        K == 1..lags
        d0 == LagDot(xc, 0)
        cof == [k \in K |-> ProdOver([j \in K |-> n - j], K \ {k})]
    IN  IF d0 > 0
        THEN Ratio(n * (n + 2) *
                     SumOver([k \in K |-> LagDot(xc, k) * LagDot(xc, k) * cof[k]], K),
                   d0 * d0 * ProdOver([j \in K |-> n - j], K))
        ELSE Ratio(0, 1)

\* stats.ljung_box; rhos holds Python floats and n - k is a Python int, so the
\* term of k = n divides by zero and raises
ljung_box(series, lags) ==
    LET x == ToNumeric(series)
        n == Len(x)
    IN  IF n = 0 \/ lags <= 0
        THEN Returned([lags |-> lags, Q |-> Undefined, pvalue |-> Undefined,
                       dof |-> lags, rhos |-> <<>>])
        ELSE LET xc == Centered(x)
                 rhos == [k \in 1..lags |-> Rho(xc, k)]
             IN  IF \E k \in 1..lags : n - k = 0
                 THEN Raised("ZeroDivisionError")
                 ELSE LET Q == LjungBoxQ(xc, lags)
                      IN  Returned([lags |-> lags, Q |-> Q,
                                    pvalue |-> ChiSquareUpperTail(Q, lags),
                                    dof |-> lags, rhos |-> rhos])

(***************************************************************************)
(* stats.py: chi-square against the uniform histogram                      *)
(***************************************************************************)
\* the bin np.histogram(x, bins=bins) puts v in (0-based): bins equal-width
\* intervals over [min, max], each closed on the left, the last one closed on
\* both sides; when min == max the range is widened to [min - 0.5, max + 0.5]
BinOf(v, lo, hi, bins) ==
    IF lo = hi THEN Min(bins \div 2, bins - 1)
    ELSE Min(((v - lo) * bins) \div (hi - lo), bins - 1)

\* hist of np.histogram(x, bins=bins), for non-empty x and bins >= 1
Histogram(x, bins) ==
    LET sorted == NpSort(x)
        lo == sorted[1]
        hi == sorted[Len(x)]
    IN  [b \in 1..bins |->
           Cardinality({i \in 1..Len(x) : BinOf(x[i], lo, hi, bins) = b - 1})]

\* mutant: the deviations are doubled, not squared
ChiSquareStat_Doubled(observed, n, bins) ==
    Ratio(SumSeq([b \in 1..bins |-> (bins * observed[b] - n) * 2]), bins * n)

\* np.nansum((observed - expected) ** 2 / expected) with expected = n / bins
\* in every bin: sum of (bins * O - n)^2 over bins * n
ChiSquareStat(observed, n, bins) ==
    Ratio(SumSeq([b \in 1..bins |->
                    (bins * observed[b] - n) * (bins * observed[b] - n)]),
          bins * n)

\* stats.chi_square_uniform
chi_square_uniform(series, bins) ==
    LET x == ToNumeric(series)
        n == Len(x)
    IN  IF n = 0
        THEN Returned([bins |-> bins, statistic |-> Undefined, pvalue |-> Undefined,
                       dof |-> 0, observed |-> <<>>, expected |-> <<>>])
        ELSE IF bins < 1 THEN Raised("ValueError")
        ELSE LET observed == Histogram(x, bins)
                 stat == ChiSquareStat(observed, n, bins)
             IN  Returned([bins |-> bins, statistic |-> stat,
                           pvalue |-> IF bins - 1 > 0
                                      THEN ChiSquareUpperTail(stat, bins - 1)
                                      ELSE Undefined,
                           dof |-> bins - 1, observed |-> observed,
                           expected |-> [b \in 1..bins |-> Ratio(n, bins)]])

(***************************************************************************)
(* stats.py: distribution summary and Kolmogorov-Smirnov                   *)
(***************************************************************************)
\* a float of a library call the model does not evaluate (it may be nan)
Unevaluated(expr) == [of |-> expr]

\* mutant: the entropy of the counts, not of the probabilities
EntropyBits_OfCounts(hist) ==
    IF Cardinality({b \in 1..Len(hist) : hist[b] > 0}) = 1 /\ SumSeq(hist) = 1
    THEN Ratio(0, 1)
    ELSE Symbolic(<<"stats.entropy", hist>>)

\* stats.entropy(p) / np.log(2) for p = hist / hist.sum(), hist.sum() > 0: the
\* sum of -p * log(p) over the bins is 0 when one bin holds every value
EntropyBits(hist) ==
    IF Cardinality({b \in 1..Len(hist) : hist[b] > 0}) = 1
    THEN Ratio(0, 1)
    ELSE Symbolic(<<"stats.entropy", hist>>)

\* stats.dist_summary
dist_summary(series, bins) ==
    LET x == ToNumeric(series)
    IN  IF Len(x) = 0
        THEN Returned([skewness |-> Undefined, kurtosis_excess |-> Undefined,
                       entropy_bits |-> Undefined])
        ELSE IF bins < 1 THEN Raised("ValueError")
        ELSE Returned([skewness |-> Unevaluated(<<"stats.skew", x>>),
                       kurtosis_excess |-> Unevaluated(<<"stats.kurtosis", x>>),
                       entropy_bits |-> EntropyBits(Histogram(x, bins))])

\* Optional[float]: None
None == [none |-> TRUE]

\* core._shannon_entropy_bits: None without a finite value, 0.0 for a constant
\* array, else the entropy of the histogram of the values scaled to [0, 1]
_shannon_entropy_bits(values, bins) ==
    LET x == SelectSeq(values, IsFinite)
    IN  IF Len(x) = 0 THEN Returned(None)
        ELSE IF IsConstant(x) THEN Returned(Ratio(0, 1))
        ELSE IF bins < 1 THEN Raised("ValueError")
        ELSE Returned(Symbolic(<<"-sum(p * log2(p)) over the histogram of", x>>))

RECURSIVE MaxOf(_)
\* the largest element of a non-empty sequence
MaxOf(s) == IF Len(s) = 1 THEN s[1] ELSE Max(s[1], MaxOf(Tail(s)))

\* stats.kstest(z, "uniform") for z = (x - xmin) / (xmax - xmin): the largest
\* of i/n - z(i) and z(i) - (i-1)/n over the sorted values, over n * (xmax - xmin)
KsStatistic(x) ==
    LET sorted == NpSort(x)
        n == Len(x)
        xmin == sorted[1]
        r == sorted[n] - xmin
    IN  Ratio(MaxOf([i \in 1..n |->
                       Max(i * r - n * (sorted[i] - xmin),
                           n * (sorted[i] - xmin) - (i - 1) * r)]),
              n * r)

\* stats.ks_test_scaled_uniform
ks_test_scaled_uniform(series) ==
    LET x == ToNumeric(series)
    IN  IF Len(x) = 0
        THEN Returned([statistic |-> Undefined, pvalue |-> Undefined,
                       note |-> "série vazia"])
        ELSE IF IsConstant(x)
        THEN Returned([statistic |-> Undefined, pvalue |-> Undefined,
                       note |-> "todos valores iguais; KS inválido"])
        ELSE Returned([statistic |-> KsStatistic(x),
                       pvalue |-> Symbolic(<<"kstest pvalue", KsStatistic(x), Len(x)>>),
                       note |-> "min-max scaled to [0,1]"])

(***************************************************************************)
(* stats.py: Jarque-Bera                                                   *)
(***************************************************************************)
Abs(a) == IF a < 0 THEN -a ELSE a
Sign(a) == IF a > 0 THEN 1 ELSE IF a < 0 THEN -1 ELSE 0

RECURSIVE GCD(_, _)
GCD(a, b) == IF b = 0 THEN a ELSE GCD(b, a % b)

\* the float (rat + coef * sqrt(rad)) / den, with integers rat, coef, rad >= 0
\* and den > 0, in lowest terms
Surd(rat, coef, rad, den) ==
    LET g == GCD(GCD(Abs(rat), Abs(coef)), den)
    IN  [nan |-> FALSE, rat |-> rat \div g, coef |-> coef \div g, rad |-> rad,
         den |-> den \div g]
NanSurd == [nan |-> TRUE, rat |-> 0, coef |-> 0, rad |-> 0, den |-> 1]

\* v * a / b for integers a and b > 0
SurdTimes(v, a, b) ==
    IF v.nan THEN NanSurd ELSE Surd(v.rat * a, v.coef * a, v.rad, v.den * b)
\* v - c for an integer c
SurdMinus(v, c) ==
    IF v.nan THEN NanSurd ELSE Surd(v.rat - c * v.den, v.coef, v.rad, v.den)
\* v + w for two floats over the same square root
SurdPlus(v, w) ==
    IF v.nan \/ w.nan THEN NanSurd
    ELSE LET l == (v.den \div GCD(v.den, w.den)) * w.den
             fv == l \div v.den
             fw == l \div w.den
         IN  Surd(v.rat * fv + w.rat * fw, v.coef * fv + w.coef * fw,
                  IF v.coef # 0 THEN v.rad ELSE w.rad, l)

\* the n-th power sum of the centered values (scaled by n^p)
PowerSum(xc, p) ==
    SumSeq([i \in 1..Len(xc) |->
              IF p = 2 THEN xc[i] * xc[i]
              ELSE IF p = 3 THEN xc[i] * xc[i] * xc[i]
              ELSE xc[i] * xc[i] * xc[i] * xc[i]])

\* stats.skew(x): m3 / m2^1.5 = M3 * sqrt(n * M2) / M2^2 in the power sums of
\* the centered values; nan when every value is the same (m2 = 0)
Skew(x) ==
    LET xc == Centered(x)
        M2 == PowerSum(xc, 2)
    IN  IF M2 = 0 THEN NanSurd
        ELSE Surd(0, PowerSum(xc, 3), Len(x) * M2, M2 * M2)

\* stats.kurtosis(x, fisher=False): m4 / m2^2 = n * M4 / M2^2
Kurtosis(x) ==
    LET xc == Centered(x)
        M2 == PowerSum(xc, 2)
    IN  IF M2 = 0 THEN NanSurd
        ELSE Surd(Len(x) * PowerSum(xc, 4), 0, Len(x) * M2, M2 * M2)

\* the sign of the float v
SurdSign(v) ==
    IF v.coef = 0 \/ v.rad = 0 THEN Sign(v.rat)
    ELSE IF v.rat = 0 \/ Sign(v.rat) = Sign(v.coef) THEN Sign(v.coef)
    ELSE LET g == GCD(Abs(v.rat), Abs(v.coef))
             r == v.rat \div g
             c == v.coef \div g
         IN  IF r * r > c * c * v.rad THEN Sign(v.rat)
             ELSE IF r * r < c * c * v.rad THEN Sign(v.coef) ELSE 0

\* stats.jarque_bera: jb = (n / 6.0) * (s*2 + (1.0 / 4.0) * ((k - 3.0) * 2))
jarque_bera(series) ==
    LET x == ToNumeric(series)
        n == Len(x)
    IN  IF n = 0
        THEN Returned([JB |-> NanSurd, pvalue |-> Undefined, skewness |-> NanSurd,
                       kurtosis |-> NanSurd])
        ELSE LET sk == Skew(x)
                 k == Kurtosis(x)
                 jb == SurdTimes(SurdPlus(SurdTimes(sk, 2, 1),
                                          SurdTimes(SurdTimes(SurdMinus(k, 3), 2, 1), 1, 4)),
                                 n, 6)
             IN  Returned([JB |-> jb,
                           pvalue |-> IF jb.nan THEN Undefined
                                      ELSE IF SurdSign(jb) <= 0 THEN Ratio(1, 1)
                                      ELSE Symbolic(<<"1 - chi2.cdf", jb, 2>>),
                           skewness |-> sk, kurtosis |-> k])

(***************************************************************************)
(* stats.py: BDS                                                           *)
(***************************************************************************)
\* the sample size below which bds_test does not compute
BDS_MIN_N == 50

\* mutant: a series one short of the minimum is computed
TooShortForBds_OneLess(n) == n < BDS_MIN_N - 1

\* if n < 50
TooShortForBds(n) == n < BDS_MIN_N

\* the eps parameter: None or a number
NoEps == [given |-> FALSE, num |-> 0]
Eps(v) == [given |-> TRUE, num |-> v]

\* corr_m_sample for n >= 50 and 1 <= m <= 5: np.mean(dists < eps) over
\* max_pairs sampled pairs. The mean of no pair is nan; no distance is below
\* eps <= 0; every distance of a constant series is 0; otherwise the fraction
\* is the one the generator's draws give
CorrSample(x, epsPositive, max_pairs, drawn) ==
    IF max_pairs = 0 THEN Undefined
    ELSE IF ~epsPositive THEN Ratio(0, 1)
    ELSE IF IsConstant(x) THEN Ratio(1, 1)
    ELSE drawn

\* stats.bds_test, for max_pairs >= 0 and m >= 1; draws = <<c1, cm>> are the
\* fractions the sampled pairs give when they depend on the sample
bds_test(series, m, eps, max_pairs, draws) ==
    LET x == ToNumeric(series)
        n == Len(x)
    IN  IF TooShortForBds(n)
        THEN Returned([m |-> m, eps |-> Undefined, n |-> n, stat |-> Undefined,
                       pvalue |-> Undefined])
        ELSE LET epsPositive == IF eps.given THEN eps.num > 0 ELSE ~IsConstant(x)
                 epsOut == IF eps.given THEN Ratio(eps.num, 1)
                           ELSE IF IsConstant(x) THEN Ratio(0, 1)
                           ELSE Symbolic(<<"0.7 * np.std(x)">>)
                 c1 == CorrSample(x, epsPositive, max_pairs, draws[1])
                 cm == CorrSample(x, epsPositive, max_pairs, draws[2])
                 \* var = 4 c1 (2m - 1) (1 - c1) 2 / n is positive iff 0 < c1 < 1
                 varPositive == ~c1.nan /\ 0 < c1.num /\ c1.num < c1.den
                 z == IF varPositive THEN Symbolic(<<"z", c1, cm, m, n>>) ELSE Undefined
             IN  Returned([m |-> m, eps |-> epsOut, n |-> n, stat |-> z,
                           pvalue |-> IF z.nan THEN Undefined
                                      ELSE Symbolic(<<"2 * (1 - norm.cdf(abs(z)))", z>>)])

(***************************************************************************)
(* stats.py: the generator of bds_test, and a process that calls bds_test  *)
(* again and again                                                   SpecBds *)
(***************************************************************************)
\* rng = np.random.default_rng(123)
BDS_SEED == 123
\* the bit generator is a small congruential one: a state, a step, an output
RngStates == 8
default_rng(seed) == seed % RngStates
RngStep(state) == (5 * state + 3) % RngStates
RngOutput(state, high) == state % high

\* rng.integers(0, high, size=size): the draws and the state they leave
RECURSIVE integers(_, _, _)
integers(state, high, size) ==
    IF size <= 0 THEN [draws |-> <<>>, state |-> state]
    ELSE LET rest == integers(RngStep(state), high, size - 1)
         IN  [draws |-> <<RngOutput(state, high)>> \o rest.draws,
              state |-> rest.state]

\* np.max(np.abs(embeds[i] - embeds[j])) for embeds[i] = x[i:i+m]
EmbedDist(x, m, i, j) == MaxOf([d \in 1..m |-> Abs(x[i + d] - x[j + d])])

\* dist < eps, for eps given or eps = 0.7 * np.std(x)
BelowEps(dist, x, eps) ==
    IF eps.given THEN dist < eps.num
    ELSE LET n == Len(x)
             s == SumSeq(x)
             ss == SumSeq([i \in 1..n |-> x[i] * x[i]])
         IN  100 * dist * dist * n * n < 49 * (n * ss - s * s)

\* corr_m_sample run on the generator in state `state`: the fraction of the
\* sampled pairs within eps, and the state the generator is left in
corr_m_sample(x, m, eps, max_pairs, state) ==
    LET n == Len(x) - m + 1
    IN  IF n <= 1 THEN [value |-> Ratio(0, 1), state |-> state]
        ELSE LET idx_i == integers(state, n, max_pairs)
                 idx_j == integers(idx_i.state, n, max_pairs)
                 within == {p \in 1..max_pairs :
                              BelowEps(EmbedDist(x, m, idx_i.draws[p], idx_j.draws[p]),
                                       x, eps)}
             IN  [value |-> IF max_pairs = 0 THEN Undefined
                            ELSE Ratio(Cardinality(within), max_pairs),
                  state |-> idx_j.state]

\* mutant: the draws come from the process-wide generator
BdsGenerator_ProcessWide(shared) == shared

\* the generator a call of bds_test draws from; `shared` is the state of the
\* process-wide one
BdsGenerator(shared) == default_rng(BDS_SEED)

\* bds_test with the draws its generator gives
bds_test_drawn(series, m, eps, max_pairs, shared) ==
    LET x == ToNumeric(series)
    IN  IF TooShortForBds(Len(x))
        THEN bds_test(series, m, eps, max_pairs, <<Undefined, Undefined>>)
        ELSE LET c1 == corr_m_sample(x, 1, eps, max_pairs, BdsGenerator(shared))
                 cm == corr_m_sample(x, m, eps, max_pairs, c1.state)
             IN  bds_test(series, m, eps, max_pairs, <<c1.value, cm.value>>)

\* block repeated up to length len
Repeat(block, len) == [i \in 1..len |-> block[((i - 1) % Len(block)) + 1]]
\* most pairs one call samples
MaxPairs == 2
\* the calls of the process
ArgsBdsSession ==
    [series : {Repeat(<<1, 2>>, BDS_MIN_N), Repeat(<<1, 2, 2>>, BDS_MIN_N + 1)},
     m : {2, 3}, eps : {NoEps, Eps(1)}, max_pairs : 0..MaxPairs]

InitBds ==
    /\ pc = "session"
    /\ op = "bds_test"
    /\ arg = Empty
    /\ ret = NoRet
    /\ metrics_dict = Empty /\ bds_m = 0 /\ out_dir = Empty
    /\ results = Empty /\ stats_df = Empty /\ cut_i = 0
    \* the process-wide generator is seeded from the operating system
    /\ np_random \in 0..(RngStates - 1)
    /\ remembered = Empty
    /\ NoService

\* one call of bds_test; the caller may keep the first result it saw
SessionBds ==
    /\ pc = "session"
    /\ \E a \in ArgsBdsSession :
          /\ arg' = a
          /\ ret' = bds_test_drawn(a.series, a.m, a.eps, a.max_pairs, np_random)
          /\ \/ remembered' = remembered
             \/ remembered = Empty /\ remembered' = <<[arg |-> arg', ret |-> ret']>>
    /\ UNCHANGED <<pc, op, cliVars, sweepVars, out_dir, np_random, collectorVars, monitorVars>>

\* any other use of random numbers in the process advances only the
\* process-wide generator
SessionOtherRandom ==
    /\ pc = "session"
    /\ np_random' = RngStep(np_random)
    /\ UNCHANGED <<pc, op, arg, ret, cliVars, sweepVars, out_dir, remembered,
                   collectorVars, monitorVars>>

NextBds == SessionBds \/ SessionOtherRandom

SpecBds == InitBds /\ [][NextBds]_vars

(***************************************************************************)
(* The calls of the stats module                                           *)
(***************************************************************************)
Cuts ==
    [kind : {"median", "mean", "other"}, val : {0}] \cup [kind : {"num"}, val : 1..MaxVal]

ArgsRunsTest == [series : SeqsUpTo(Entries, MaxSeries), cut : Cuts]
ArgsSeries == [series : SeqsUpTo(Entries, MaxSeries)]
\* an entry of a raw series before coercion
RawEntries == Entries \cup {Unparseable, PosInf, NegInf}
ArgsRaw == [series : SeqsUpTo(RawEntries, MaxSeries)]
ArgsRawCategories == [series : SeqsUpTo(RawEntries, MaxSeries), low_th : {2}, high_th : {3}]
ArgsBins == [series : SeqsUpTo(Entries, MaxSeries), bins : 0..MaxBins]
\* series around the minimum sample size of bds_test, with and without a
\* missing entry in front
LongSeries ==
    LET blocks == SeqsUpTo(Entries, 2) \ {<<>>}
        lens == (BDS_MIN_N - 1)..(BDS_MIN_N + 1)
    IN  {Repeat(b, l) : b \in blocks, l \in lens}
          \cup {<<NaN>> \o Repeat(b, l) : b \in blocks, l \in lens}
\* the embedding dimensions the command line asks for
BdsDims == {2, 3, 4, 5}
\* fractions of sampled pairs within eps
Fractions == {Ratio(0, 1), Ratio(1, 2), Ratio(1, 1)}
ArgsBds ==
    [series : SeqsUpTo(Entries, 2) \cup LongSeries, m : BdsDims,
     eps : {NoEps, Eps(0), Eps(1)}, max_pairs : {0, 50000}]
ArgsLags == [series : SeqsUpTo(Entries, MaxSeries), lags : (-1)..MaxLags]

InitStats ==
    /\ pc = "call"
    /\ ret = NoRet
    /\ NoMain
    /\ \/ op = "runs_test" /\ arg \in ArgsRunsTest
       \/ op = "runs_up_down" /\ arg \in ArgsSeries
       \/ op = "_to_numeric" /\ arg \in ArgsRaw
       \/ op = "to_categories" /\ arg \in ArgsRawCategories
       \/ op = "chi_square_uniform" /\ arg \in ArgsBins
       \/ op = "jarque_bera" /\ arg \in ArgsSeries
       \/ op = "bds_test" /\ arg \in ArgsBds
       \/ op = "dist_summary" /\ arg \in ArgsBins
       \/ op = "_shannon_entropy_bits" /\ arg \in ArgsBins
       \/ op = "ks_test_scaled_uniform" /\ arg \in ArgsSeries
       \/ op = "acf" /\ arg \in ArgsLags
       \/ op = "ljung_box" /\ arg \in ArgsLags

CallRunsTest ==
    /\ pc = "call" /\ op = "runs_test"
    /\ ret' = runs_test(arg.series, arg.cut)
    /\ pc' = "done"
    /\ UNCHANGED <<op, arg, mainVars>>

CallRunsUpDown ==
    /\ pc = "call" /\ op = "runs_up_down"
    /\ ret' = runs_up_down(arg.series)
    /\ pc' = "done"
    /\ UNCHANGED <<op, arg, mainVars>>

CallAcf ==
    /\ pc = "call" /\ op = "acf"
    /\ ret' = acf(arg.series, arg.lags)
    /\ pc' = "done"
    /\ UNCHANGED <<op, arg, mainVars>>

CallLjungBox ==
    /\ pc = "call" /\ op = "ljung_box"
    /\ ret' = ljung_box(arg.series, arg.lags)
    /\ pc' = "done"
    /\ UNCHANGED <<op, arg, mainVars>>

CallToNumeric ==
    /\ pc = "call" /\ op = "_to_numeric"
    /\ ret' = Returned(ToNumeric(arg.series))
    /\ pc' = "done"
    /\ UNCHANGED <<op, arg, mainVars>>

CallChiSquareUniform ==
    /\ pc = "call" /\ op = "chi_square_uniform"
    /\ ret' = chi_square_uniform(arg.series, arg.bins)
    /\ pc' = "done"
    /\ UNCHANGED <<op, arg, mainVars>>

CallJarqueBera ==
    /\ pc = "call" /\ op = "jarque_bera"
    /\ ret' = jarque_bera(arg.series)
    /\ pc' = "done"
    /\ UNCHANGED <<op, arg, mainVars>>

\* rng = np.random.default_rng(123): the draws are fixed by the seed and the
\* data; the fractions they give are taken from Fractions
CallBds ==
    /\ pc = "call" /\ op = "bds_test"
    /\ \E c1 \in Fractions, cm \in Fractions :
          ret' = bds_test(arg.series, arg.m, arg.eps, arg.max_pairs, <<c1, cm>>)
    /\ pc' = "done"
    /\ UNCHANGED <<op, arg, mainVars>>

CallDistSummary ==
    /\ pc = "call" /\ op = "dist_summary"
    /\ ret' = dist_summary(arg.series, arg.bins)
    /\ pc' = "done"
    /\ UNCHANGED <<op, arg, mainVars>>

CallShannonEntropy ==
    /\ pc = "call" /\ op = "_shannon_entropy_bits"
    /\ ret' = _shannon_entropy_bits(arg.series, arg.bins)
    /\ pc' = "done"
    /\ UNCHANGED <<op, arg, mainVars>>

CallKsTest ==
    /\ pc = "call" /\ op = "ks_test_scaled_uniform"
    /\ ret' = ks_test_scaled_uniform(arg.series)
    /\ pc' = "done"
    /\ UNCHANGED <<op, arg, mainVars>>

NextStats ==
    \/ CallRunsTest \/ CallRunsUpDown \/ CallAcf \/ CallLjungBox
    \/ CallToNumeric \/ CallToCategories \/ CallChiSquareUniform
    \/ CallJarqueBera \/ CallBds \/ CallDistSummary \/ CallKsTest
    \/ CallShannonEntropy

SpecStats == InitStats /\ [][NextStats]_vars

(***************************************************************************)
(* Claims about the stats module                                           *)
(***************************************************************************)
AllDistinct(s) == \A i, j \in 1..Len(s) : i # j => s[i] # s[j]
NoMissing(s) == \A i \in 1..Len(s) : s[i] # NaN

(***************************************************************************)
(* scripts/run_trend_sweep.py and trend_stats.py                           *)
(***************************************************************************)
CUTS == <<2, 5, 10, 20>>
K_MAX_LOWS == 30
MIN_COUNT == 20
WINDOW_H == 5

\* x >= cut, elementwise
_to_bool_high(x, cut) == [i \in 1..Len(x) |-> x[i] >= cut]

RECURSIVE ProbLoop(_, _, _, _, _, _, _)
\* for t in range(k, n - h): count the t whose k flags before are all lows
\* (all highs when not want_after_lows) and those with a high in flags[t:t+h]
ProbLoop(flags, k, h, want_after_lows, t, total, hits) ==
    IF ~(k <= t /\ t < Len(flags) - h)
    THEN <<total, hits>>
    ELSE IF \A j \in (t - k + 1)..t : flags[j] = ~want_after_lows
    THEN ProbLoop(flags, k, h, want_after_lows, t + 1, total + 1,
                  IF \E j \in (t + 1)..Min(t + h, Len(flags)) : flags[j]
                  THEN hits + 1 ELSE hits)
    ELSE ProbLoop(flags, k, h, want_after_lows, t + 1, total, hits)

\* returns (p, n_amostras)
_prob_high_within_h_after_k(flags_high, k, h, want_after_lows) ==
    LET r == ProbLoop(flags_high, k, h, want_after_lows, k, 0, 0)
    IN  <<Prob(r[2], r[1]), r[1]>>

\* mutant: only a point without any sample is dropped
Undersampled_OnlyEmpty(n) == n = 0

\* n < MIN_COUNT
Undersampled(n) == n < MIN_COUNT

\* ks_l = np.arange(2, K_MAX_LOWS + 1) and ps_l, the curve of one cut:
\* np.nan if (n < MIN_COUNT) else p
LowsCurve(flags) ==
    [i \in 1..(K_MAX_LOWS - 1) |->
       LET pn == _prob_high_within_h_after_k(flags, i + 1, WINDOW_H, TRUE)
       IN  IF Undersampled(pn[2]) THEN Undefined ELSE pn[1]]

\* for k, p in zip(ks_l, ps_l): if np.isnan(p): continue; ...[int(k)] = float(p)
CurveEntries(ps_l) ==
    [k \in {i + 1 : i \in {j \in 1..Len(ps_l) : ~ps_l[j].nan}} |-> ps_l[k - 1]]

\* d[key] = value on a dict
DictPut(d, key, value) ==
    [k \in (DOMAIN d) \cup {key} |-> IF k = key THEN value ELSE d[k]]

\* np.round(v, 8) of asdict
Round8(v) == IF v.nan THEN Undefined ELSE Symbolic(<<"np.round(., 8)", v>>)

\* the least / greatest of the values of a non-empty curve
CurveMin(curve) ==
    LET k == CHOOSE a \in DOMAIN curve : \A b \in DOMAIN curve :
                 curve[a].num * curve[b].den <= curve[b].num * curve[a].den
    IN  curve[k]
CurveMax(curve) ==
    LET k == CHOOSE a \in DOMAIN curve : \A b \in DOMAIN curve :
                 curve[a].num * curve[b].den >= curve[b].num * curve[a].den
    IN  curve[k]

\* trend_stats.summarize_prob_curve followed by TrendStats.asdict
summarize_prob_curve(prob_by_k, cut, h) ==
    IF DOMAIN prob_by_k = {}
    THEN [cut |-> cut, h |-> h, n_k |-> 0, mean |-> Undefined, std |-> Undefined,
          var |-> Undefined, min_val |-> Undefined, max_val |-> Undefined,
          amplitude |-> Undefined]
    ELSE [cut |-> cut, h |-> h, n_k |-> Cardinality(DOMAIN prob_by_k),
          mean |-> Round8(Symbolic(<<"xs.mean()", prob_by_k>>)),
          std |-> Round8(Symbolic(<<"xs.std(ddof=0)", prob_by_k>>)),
          var |-> Round8(Symbolic(<<"xs.var(ddof=0)", prob_by_k>>)),
          min_val |-> Round8(CurveMin(prob_by_k)),
          max_val |-> Round8(CurveMax(prob_by_k)),
          amplitude |-> Round8(Symbolic(<<"xs.max() - xs.min()", prob_by_k>>))]

RECURSIVE SortedKeys(_)
\* the keys of a dict in increasing order
SortedKeys(K) ==
    IF K = {} THEN <<>>
    ELSE LET m == CHOOSE a \in K : \A b \in K : a <= b
         IN  <<m>> \o SortedKeys(K \ {m})

\* trend_stats.stats_table_for_cuts: one row per cut, sorted by cut; without
\* any row the frame has no column "cut" and sort_values("cut") raises
stats_table_for_cuts(res, h_target) ==
    LET cuts == SortedKeys(DOMAIN res)
    IN  IF DOMAIN res = {} THEN Raised("KeyError")
        ELSE Returned([i \in 1..Len(cuts) |->
                         LET by_h == res[cuts[i]]
                             curve == IF h_target \in DOMAIN by_h THEN by_h[h_target]
                                      ELSE Empty
                         IN  summarize_prob_curve(curve, cuts[i], h_target)])

\* values below every cut, between the first two cuts and above every cut
SweepValues == {1, 3, 25}
\* lengths of the series of the sweep: none, too short for any point, and
\* lengths at which points of a curve pass MIN_COUNT
SweepLens ==
    {0, MIN_COUNT, MIN_COUNT + WINDOW_H + 3, 2 * MIN_COUNT} \cup
    ((MaxSweepLen - 2)..MaxSweepLen)
ArgsSweep ==
    [x : {Repeat(b, l) : b \in SeqsUpTo(SweepValues, MaxBlock) \ {<<>>},
                         l \in SweepLens}]

\* x = series.values; x = x[np.isfinite(x)]
SweepX(a) == SelectSeq(ToNumeric(a.x), IsFinite)

InitSweep ==
    /\ pc = "call"
    /\ op = "run_trend_sweep.main"
    /\ arg \in ArgsSweep
    /\ ret = NoRet
    /\ NoMain

\* main up to the loop over the cuts: the data are loaded, results = {}
SweepLoad ==
    /\ pc = "call" /\ op = "run_trend_sweep.main"
    /\ results' = Empty
    /\ cut_i' = 1
    /\ pc' = "cut"
    /\ UNCHANGED <<op, arg, ret, cliVars, out_dir, stats_df, otherVars>>

\* one pass of "for cut in CUTS": the curve of k lows of the cut goes into
\* results[cut][WINDOW_H] (the plots of the pass have no part in results)
SweepCut ==
    /\ pc = "cut" /\ op = "run_trend_sweep.main"
    /\ cut_i <= Len(CUTS)
    /\ LET cut == CUTS[cut_i]
           flags == _to_bool_high(SweepX(arg), cut)
           ps_l == LowsCurve(flags)
       IN  results' = DictPut(results, cut,
                              DictPut(Empty, WINDOW_H, CurveEntries(ps_l)))
    /\ cut_i' = cut_i + 1
    /\ pc' = IF cut_i = Len(CUTS) THEN "stats" ELSE "cut"
    /\ UNCHANGED <<op, arg, ret, cliVars, out_dir, stats_df, otherVars>>

\* stats_df = stats_table_for_cuts(results, h_target=WINDOW_H), saved as csv
\* and json
SweepStats ==
    /\ pc = "stats" /\ op = "run_trend_sweep.main"
    /\ stats_df' = stats_table_for_cuts(results, WINDOW_H).value
    /\ out_dir' = DictPut(DictPut(out_dir, "trend_stats_h5.csv", stats_df'),
                          "trend_stats_h5.json", stats_df')
    /\ pc' = "done"
    /\ UNCHANGED <<op, arg, ret, cliVars, results, cut_i, otherVars>>

NextSweep == SweepLoad \/ SweepCut \/ SweepStats

SpecSweep == InitSweep /\ [][NextSweep]_vars

(***************************************************************************)
(* trend_stats.py: stats_table_for_cuts called on its own  SpecTrendStats  *)
(***************************************************************************)
\* the cuts of the tables handed to stats_table_for_cuts: the first of CUTS
MaxCuts == 2
TableCuts == {CUTS[i] : i \in 1..MaxCuts}
\* the curves at the target horizon: k -> probability for some of the k
TableCurves ==
    UNION {[K -> {Ratio(0, 1), Ratio(1, 2), Ratio(1, 1)}] : K \in SUBSET {2, 3}}
\* horizon -> curve for a cut: the target horizon and another one
TableByH ==
    {by_h \in UNION {[H -> TableCurves] : H \in SUBSET {WINDOW_H - 1, WINDOW_H}} :
        (WINDOW_H - 1) \in DOMAIN by_h => by_h[WINDOW_H - 1] = [k \in {2} |-> Ratio(1, 1)]}
ArgsTable ==
    [results : UNION {[Cs -> TableByH] : Cs \in SUBSET TableCuts}, h_target : {WINDOW_H}]

InitTrendStats ==
    /\ pc = "call"
    /\ op = "stats_table_for_cuts"
    /\ arg \in ArgsTable
    /\ ret = NoRet
    /\ NoMain

CallStatsTable ==
    /\ pc = "call" /\ op = "stats_table_for_cuts"
    /\ ret' = stats_table_for_cuts(arg.results, arg.h_target)
    /\ pc' = "done"
    /\ UNCHANGED <<op, arg, mainVars>>

NextTrendStats == CallStatsTable

SpecTrendStats == InitTrendStats /\ [][NextTrendStats]_vars

\* the t the sweep's scan counts for (cut, h, k): k values below the cut
\* before t and t < n - h
SweepInstances(x, cut, k, h) ==
    {t \in k..(Len(x) - h - 1) : \A j \in 1..k : x[t - k + j] < cut}
\* the same with the last index included (t + h <= n)
SweepInstancesToEnd(x, cut, k, h) ==
    {t \in k..(Len(x) - h) : \A j \in 1..k : x[t - k + j] < cut}
SweepHits(x, cut, k, h) ==
    {t \in SweepInstances(x, cut, k, h) :
        \E j \in 1..h : t + j <= Len(x) /\ x[t + j] >= cut}

C18_WitnessPositive ==
    /\ op = "run_trend_sweep.main" /\ pc = "done"
    /\ \E c \in DOMAIN results :
         /\ 2 \in DOMAIN results[c][WINDOW_H]
         /\ results[c][WINDOW_H][2].num > 0
         /\ 3 \notin DOMAIN results[c][WINDOW_H]


(***************************************************************************)
(* core.py and cli.py: the analysis batch                                  *)
(***************************************************************************)
\* core.compute_basic_metrics, as the dict asdict makes of it
compute_basic_metrics(series) ==
    LET x == ToNumeric(series)
    IN  IF Len(x) = 0
        THEN [n |-> 0, mean |-> Undefined, median |-> Undefined, std |-> Undefined,
              min |-> Undefined, max |-> Undefined, entropy |-> None]
        ELSE [n |-> Len(x), mean |-> Mean(x), median |-> Median(x),
              std |-> Symbolic(<<"sqrt", Ratio(LagDot(Centered(x), 0),
                                               Len(x) * Len(x) * Len(x))>>),
              min |-> Ratio(NpSort(x)[1], 1), max |-> Ratio(NpSort(x)[Len(x)], 1),
              entropy |-> _shannon_entropy_bits(x, 256).value]

\* series = pd.to_numeric(df[args.col], errors="coerce").dropna()
CliSeries(a) == ToNumeric(a.column)

\* the tests of sections 4 and 5 of main with the key each is stored under
\* in metrics_dict, in the order main runs them
CliTests ==
    <<"chi_square_uniform", "ks_scaled_uniform", "jarque_bera", "runs_test",
      "runs_up_down", "acf", "ljung_box">>

\* the call main makes for a test
CliTestCall(key, a) ==
    LET series == CliSeries(a)
    IN  CASE key = "chi_square_uniform" -> chi_square_uniform(series, a.bins)
          [] key = "ks_scaled_uniform" -> ks_test_scaled_uniform(series)
          [] key = "jarque_bera" -> jarque_bera(series)
          [] key = "runs_test" -> runs_test(series, a.run_cut)
          [] key = "runs_up_down" -> runs_up_down(series)
          [] key = "acf" -> acf(series, a.lags)
          [] key = "ljung_box" -> ljung_box(series, a.lb_lags)

\* "m=2", ... of the BDS entries
BdsKey(m) == <<"m=", m>>

CliValues == 1..3
ArgsCli ==
    [column : SeqsUpTo(CliValues, MaxSeries), has_col : BOOLEAN,
     bins : {0, 60}, lags : {24}, lb_lags : {1, 24},
     run_cut : {[kind |-> "median", val |-> 0], [kind |-> "num", val |-> 2]},
     no_plots : {TRUE}, html : BOOLEAN]

InitCli ==
    /\ pc = "call"
    /\ op = "cli.main"
    /\ arg \in ArgsCli
    /\ ret = NoRet
    /\ NoMain

\* sections 1-3: the csv is read, the column must be there, metrics_dict
\* starts with the basic metrics
CliLoad ==
    /\ pc = "call" /\ op = "cli.main"
    /\ IF arg.has_col
       THEN /\ metrics_dict' = DictPut(Empty, "basic",
                                       compute_basic_metrics(CliSeries(arg)))
            /\ pc' = "distribution"
            /\ ret' = ret
       ELSE /\ ret' = Raised("ValueError")
            /\ pc' = "raised"
            /\ metrics_dict' = metrics_dict
    /\ UNCHANGED <<op, arg, bds_m, sweepVars, out_dir, otherVars>>

\* the tests named by keys are called in order and then stored; an exception
\* of any of them leaves main before anything of the section is stored
CliRun(keys, next) ==
    LET raising == {i \in 1..Len(keys) : CliTestCall(keys[i], arg).status = "raised"}
    IN  IF raising = {}
        THEN /\ metrics_dict' =
                  [k \in (DOMAIN metrics_dict) \cup {keys[i] : i \in 1..Len(keys)} |->
                     IF \E i \in 1..Len(keys) : keys[i] = k
                     THEN CliTestCall(k, arg).value ELSE metrics_dict[k]]
             /\ pc' = next
             /\ ret' = ret
        ELSE /\ ret' = CliTestCall(keys[CHOOSE i \in raising :
                                           \A j \in raising : i <= j], arg)
             /\ pc' = "raised"
             /\ metrics_dict' = metrics_dict

\* section 4: chi, ks and jb are computed, then stored
CliDistribution ==
    /\ pc = "distribution" /\ op = "cli.main"
    /\ CliRun(<<"chi_square_uniform", "ks_scaled_uniform", "jarque_bera">>, "runs_test")
    /\ UNCHANGED <<op, arg, bds_m, sweepVars, out_dir, otherVars>>

\* sections 5.1 - 5.4
CliRunsTest ==
    /\ pc = "runs_test" /\ op = "cli.main"
    /\ CliRun(<<"runs_test">>, "runs_up_down")
    /\ UNCHANGED <<op, arg, bds_m, sweepVars, out_dir, otherVars>>

CliRunsUpDown ==
    /\ pc = "runs_up_down" /\ op = "cli.main"
    /\ CliRun(<<"runs_up_down">>, "acf")
    /\ UNCHANGED <<op, arg, bds_m, sweepVars, out_dir, otherVars>>

CliAcf ==
    /\ pc = "acf" /\ op = "cli.main"
    /\ CliRun(<<"acf">>, "ljung_box")
    /\ UNCHANGED <<op, arg, bds_m, sweepVars, out_dir, otherVars>>

CliLjungBox ==
    /\ pc = "ljung_box" /\ op = "cli.main"
    /\ CliRun(<<"ljung_box">>, "bds_start")
    /\ UNCHANGED <<op, arg, bds_m, sweepVars, out_dir, otherVars>>

\* section 6: metrics_dict["bds"] = {}, m starts at 2
CliBdsStart ==
    /\ pc = "bds_start" /\ op = "cli.main"
    /\ metrics_dict' = DictPut(metrics_dict, "bds", Empty)
    /\ bds_m' = 2
    /\ pc' = "bds"
    /\ UNCHANGED <<op, arg, ret, sweepVars, out_dir, otherVars>>

\* one pass of "for m in [2, 3, 4, 5]": the only try / except of main
CliBds ==
    /\ pc = "bds" /\ op = "cli.main"
    /\ \E c1 \in Fractions, cm \in Fractions :
         LET r == bds_test(CliSeries(arg), bds_m, NoEps, 50000, <<c1, cm>>)
             entry == IF r.status = "raised" THEN [erro |-> r.exc] ELSE r.value
         IN  metrics_dict' =
               DictPut(metrics_dict, "bds",
                       DictPut(metrics_dict["bds"], BdsKey(bds_m), entry))
    /\ bds_m' = bds_m + 1
    /\ pc' = IF bds_m = 5 THEN "plots" ELSE "bds"
    /\ UNCHANGED <<op, arg, ret, sweepVars, out_dir, otherVars>>

\* section 7 under --no-plots
CliPlots ==
    /\ pc = "plots" /\ op = "cli.main"
    /\ arg.no_plots
    /\ metrics_dict' = DictPut(metrics_dict, "plots", Empty)
    /\ pc' = "save"
    /\ UNCHANGED <<op, arg, ret, bds_m, sweepVars, out_dir, otherVars>>

\* section 8: metrics.json is written
CliSaveJson ==
    /\ pc = "save" /\ op = "cli.main"
    /\ out_dir' = DictPut(out_dir, "metrics.json", metrics_dict)
    /\ pc' = "report"
    /\ UNCHANGED <<op, arg, ret, cliVars, sweepVars, otherVars>>

\* section 9: report.md, and report.html under --html
CliReports ==
    /\ pc = "report" /\ op = "cli.main"
    /\ out_dir' =
         LET md == DictPut(out_dir, "report.md", <<"markdown report of", metrics_dict>>)
         IN  IF arg.html
             THEN DictPut(md, "report.html", <<"html report of", metrics_dict>>)
             ELSE md
    /\ pc' = "done"
    /\ UNCHANGED <<op, arg, ret, cliVars, sweepVars, otherVars>>

NextCli ==
    \/ CliLoad \/ CliDistribution \/ CliRunsTest \/ CliRunsUpDown \/ CliAcf
    \/ CliLjungBox \/ CliBdsStart \/ CliBds \/ CliPlots \/ CliSaveJson
    \/ CliReports

SpecCli == InitCli /\ [][NextCli]_vars

\* C14: in the batch of cli.main, an exception or an undefined result of one
\* test does not keep the results of the others from being computed and
\* written to metrics.json: once main has ended on a readable column, every
\* test whose own call returns has its result in the file.
C14_TestsIndependent ==
    (op = "cli.main" /\ pc \in {"done", "raised"} /\ arg.has_col) =>
        /\ \A i \in 1..Len(CliTests) :
              CliTestCall(CliTests[i], arg).status = "returned" =>
                 /\ "metrics.json" \in DOMAIN out_dir
                 /\ CliTests[i] \in DOMAIN out_dir["metrics.json"]
                 /\ out_dir["metrics.json"][CliTests[i]] =
                      CliTestCall(CliTests[i], arg).value
        /\ "metrics.json" \in DOMAIN out_dir
        /\ "bds" \in DOMAIN out_dir["metrics.json"]
        /\ \A m \in BdsDims : BdsKey(m) \in DOMAIN out_dir["metrics.json"]["bds"]

\* C10: for every series of n >= 2 all-distinct values, runs_test with
\* cut = "median" returns n_above + n_below in {n, n-1} and runs >= 1.
C10_RunsTestMedianDistinct ==
    (/\ Done("runs_test") /\ arg.cut.kind = "median"
     /\ NoMissing(arg.series) /\ AllDistinct(arg.series) /\ Len(arg.series) >= 2) =>
        LET n == Len(arg.series)
            r == ret.value
        IN  /\ ret.status = "returned"
            /\ r.n_above + r.n_below \in {n, n - 1}
            /\ ~r.runs.nan
            /\ r.runs.num >= r.runs.den

C10_Witness ==
    /\ Done("runs_test") /\ arg.cut.kind = "median"
    /\ NoMissing(arg.series) /\ AllDistinct(arg.series) /\ Len(arg.series) = 3
    /\ ret.value.n_above + ret.value.n_below = 2
    /\ ret.value.runs = Ratio(2, 1)

C10_WitnessEven ==
    /\ Done("runs_test") /\ arg.cut.kind = "median"
    /\ NoMissing(arg.series) /\ AllDistinct(arg.series) /\ Len(arg.series) = 4
    /\ ret.value.n_above + ret.value.n_below = 4
    /\ ret.value.runs.num >= 3

\* C11: runs_test on a non-empty series whose kept values all fall in one
\* class (n_above = 0 or n_below = 0) returns runs = 1 with z and pvalue
\* undefined; runs_up_down does the same on a series with differences whose
\* non-zero differences all have one sign (n_up = 0 or n_down = 0).
C11_DegenerateRunsExplicit ==
    /\ (/\ Done("runs_test") /\ Len(ToNumeric(arg.series)) >= 1
        /\ (ret.value.n_above = 0 \/ ret.value.n_below = 0)) =>
          /\ ret.status = "returned"
          /\ ret.value.runs = Ratio(1, 1)
          /\ ret.value.z.nan /\ ret.value.pvalue.nan
    /\ (/\ Done("runs_up_down") /\ Len(ToNumeric(arg.series)) >= 2
        /\ LET x == ToNumeric(arg.series)
           IN  \/ \A i \in 1..(Len(x) - 1) : x[i + 1] >= x[i]
               \/ \A i \in 1..(Len(x) - 1) : x[i + 1] <= x[i]) =>
          /\ ret.status = "returned"
          /\ ret.value.runs = Ratio(1, 1)
          /\ ret.value.z.nan /\ ret.value.pvalue.nan

C11_Witness ==
    /\ Done("runs_up_down")
    /\ Len(ToNumeric(arg.series)) = 4
    /\ ret.value.n_up = 2 /\ ret.value.n_down = 0
    /\ ret.value.runs = Ratio(1, 1) /\ ret.value.z.nan

C11_WitnessRunsTest ==
    /\ Done("runs_test") /\ arg.cut.kind = "num"
    /\ Len(ToNumeric(arg.series)) >= 3
    /\ ret.value.n_above >= 2 /\ ret.value.n_below = 0
    /\ ret.value.runs = Ratio(1, 1) /\ ret.value.z.nan

\* C12: the statistical tests never raise on too little data; ljung_box
\* returns a LjungBoxResult for every series length n >= 0 and every lags,
\* lags >= n included.
C12_LjungBoxNeverRaises ==
    (pc = "done" /\ op \in {"runs_test", "runs_up_down", "acf", "ljung_box"}) =>
        ret.status = "returned"

\* C13: on a constant series acf returns nan for every lag and ljung_box
\* returns Q and pvalue as nan, never a numeric verdict.
C13_ConstantSeriesUndefined ==
    /\ (Done("acf") /\ IsConstant(ToNumeric(arg.series))) =>
          /\ ret.status = "returned"
          /\ \A k \in 1..Len(ret.value.acf) : ret.value.acf[k].nan
    /\ (/\ Done("ljung_box") /\ IsConstant(ToNumeric(arg.series))
        /\ ret.status = "returned") =>
          /\ ret.value.Q.nan
          /\ ret.value.pvalue.nan

\* C16: numeric coercion (_to_numeric, and the same coercion inside
\* to_categories) outputs only the finite entries, in their original order:
\* missing, unparseable and infinite entries are all dropped.
C16_CoercionKeepsOnlyFinite ==
    /\ Done("_to_numeric") =>
          /\ ret.status = "returned"
          /\ ret.value = SelectSeq(arg.series, IsFinite)
    /\ Done("to_categories") =>
          /\ ret.status = "returned"
          /\ Len(ret.value) = Len(SelectSeq(arg.series, IsFinite))

\* C19: for a non-empty series the statistic returned by chi_square_uniform
\* is non-negative, and it is 0 exactly when every bin's observed count
\* equals n / bins.
C19_ChiSquareZeroIffUniform ==
    (/\ Done("chi_square_uniform") /\ ret.status = "returned"
     /\ Len(ToNumeric(arg.series)) >= 1) =>
        LET n == Len(ToNumeric(arg.series))
            stat == ret.value.statistic
            observed == ret.value.observed
        IN  /\ ~stat.nan /\ stat.den > 0 /\ stat.num >= 0
            /\ Len(observed) = arg.bins
            /\ SumSeq(observed) = n
            /\ (stat.num = 0) <=>
                 (\A b \in 1..arg.bins : observed[b] * arg.bins = n)

C19_Witness ==
    /\ Done("chi_square_uniform") /\ arg.bins = 3
    /\ ret.value.observed = <<1, 1, 1>>
    /\ ret.value.statistic.num = 0

C19_WitnessPositive ==
    /\ Done("chi_square_uniform") /\ arg.bins = 2
    /\ ret.value.observed = <<1, 3>>
    /\ ret.value.statistic = Ratio(8, 8)

\* a / b in lowest terms, b > 0
Reduced(a, b) == LET g == GCD(Abs(a), b) IN Ratio(a \div g, b \div g)
RatioPlus(p, q) ==
    LET l == (p.den \div GCD(p.den, q.den)) * q.den
    IN  Reduced(p.num * (l \div p.den) + q.num * (l \div q.den), l)
RatioTimes(p, q) ==
    LET a == Reduced(p.num, q.den)
        b == Reduced(q.num, p.den)
    IN  Ratio(a.num * b.num, a.den * b.den)

\* the square of a float that is rational or a pure square root
SquareOf(v) ==
    LET r == Reduced(v.rat, v.den)
        c == Reduced(v.coef, v.den)
    IN  IF v.coef = 0 THEN RatioTimes(r, r)
        ELSE RatioTimes(RatioTimes(c, c), Ratio(v.rad, 1))

ISqrt(m) == CHOOSE r \in 0..m : r * r <= m /\ m < (r + 1) * (r + 1)

\* the float v is the rational q
SurdEqualsRatio(v, q) ==
    IF v.coef # 0 /\ ISqrt(v.rad) * ISqrt(v.rad) # v.rad THEN FALSE
    ELSE Reduced(v.rat + v.coef * ISqrt(v.rad), v.den) = Reduced(q.num, q.den)

\* (n/6) * (s^2 + (1/4) * (k - 3)^2)
StatedJB(n, sk, k) ==
    RatioTimes(Ratio(n, 6),
               RatioPlus(SquareOf(sk),
                         RatioTimes(Ratio(1, 4), SquareOf(SurdMinus(k, 3)))))

\* C17: jarque_bera returns JB = (n/6) * (s^2 + (1/4) * (k - 3)^2) for the
\* skewness s and the non-excess kurtosis k it returns (squares, not
\* doublings), so JB >= 0 whenever s and k are defined.
C17_JarqueBeraSumOfSquares ==
    (/\ Done("jarque_bera") /\ ret.status = "returned"
     /\ ~ret.value.skewness.nan /\ ~ret.value.kurtosis.nan) =>
        /\ ~ret.value.JB.nan
        /\ SurdSign(ret.value.JB) >= 0
        /\ SurdEqualsRatio(ret.value.JB,
                           StatedJB(Len(ToNumeric(arg.series)), ret.value.skewness,
                                    ret.value.kurtosis))

\* C20: bds_test on a series with fewer than 50 valid values returns stat,
\* pvalue and eps as nan, never 0 or another number, for every m, eps and
\* max_pairs.
C20_BdsUndefinedBelowMinimum ==
    (Done("bds_test") /\ Len(ToNumeric(arg.series)) < 50) =>
        /\ ret.status = "returned"
        /\ ret.value.stat.nan
        /\ ret.value.pvalue.nan
        /\ ret.value.eps.nan
        /\ ret.value.n = Len(ToNumeric(arg.series))

C20_Witness ==
    /\ Done("bds_test")
    /\ Len(arg.series) = 50 /\ Len(ToNumeric(arg.series)) = 49
    /\ arg.eps = Eps(1) /\ arg.max_pairs = 50000
    /\ ret.value.stat.nan /\ ret.value.eps.nan

\* at 50 valid values the test computes
C20_WitnessComputed ==
    /\ Done("bds_test") /\ Len(ToNumeric(arg.series)) = 50
    /\ ~ret.value.stat.nan /\ ~ret.value.eps.nan

\* the operations that take a raw series, and those that take categories
SeriesOps ==
    {"dist_summary", "chi_square_uniform", "ks_test_scaled_uniform", "runs_test",
     "runs_up_down", "acf", "ljung_box", "jarque_bera", "bds_test",
     "to_categories", "sliding_signal_k_lows"}
CatsOps == {"class_frequencies", "p_high_after_k_lows", "p_high_after_pattern"}

\* the call in hand is one of the core operations on an empty input, with
\* parameters the operation accepts
EmptyInputCall ==
    \/ op \in SeriesOps /\ arg.series = <<>>
    \/ op \in CatsOps \ {"p_high_after_k_lows"} /\ arg.cats = <<>>
    \/ op = "p_high_after_k_lows" /\ arg.cats = <<>> /\ arg.k >= 1 /\ arg.horizon >= 1

\* every statistic / probability of the returned value is nan or empty
ResultUndefined ==
    LET v == ret.value
    IN  CASE op = "dist_summary" ->
               v.skewness.nan /\ v.kurtosis_excess.nan /\ v.entropy_bits.nan
          [] op \in {"chi_square_uniform", "ks_test_scaled_uniform"} ->
               v.statistic.nan /\ v.pvalue.nan
          [] op \in {"runs_test", "runs_up_down"} -> v.runs.nan /\ v.z.nan /\ v.pvalue.nan
          [] op = "acf" -> v.acf = <<>> /\ v.ci_approx.nan
          [] op = "ljung_box" -> v.Q.nan /\ v.pvalue.nan
          [] op = "jarque_bera" -> v.JB.nan /\ v.pvalue.nan
          [] op = "bds_test" -> v.stat.nan /\ v.pvalue.nan
          [] op = "to_categories" -> v = <<>>
          [] op = "class_frequencies" -> \A c \in Categories : v[c].nan
          [] op \in {"p_high_after_k_lows", "p_high_after_pattern"} ->
               v.prob.nan /\ v.total = 0
          [] op = "sliding_signal_k_lows" -> v.prob_empirica.nan /\ v.positions = <<>>

\* C15: on an empty input no core operation raises; each returns a result
\* whose statistics and probabilities are nan or empty.
C15_EmptyInputNeverRaises ==
    (pc = "done" /\ EmptyInputCall) =>
        /\ ret.status = "returned"
        /\ ResultUndefined


(***************************************************************************)
(* collector.py: the polling loop of main                    SpecCollector *)
(*                                                                         *)
(* A round is its id, 1, 2, ...; the endpoint returns the last rounds it   *)
(* has.  The sizes of the program (100,000 ids kept at most, 80,000 after  *)
(* the trim, 120 rounds per answer) are scaled down to the sizes below.    *)
(***************************************************************************)
\* len(seen) > 100_000
SeenLimit == 3
\* list(seen)[-80_000:]
SeenKeep == 2
\* limite=120 of ENDPOINT_URL
Limite == 2
\* the rounds played while the collector runs
MaxRound == 5
\* the rows the collector appends to a file while it is watched
MaxAppended == 8

\* the rows of a file of the output directory (none when it does not exist)
FileRows(dir, name) == IF name \in DOMAIN dir THEN dir[name] ELSE <<>>

\* payload["resultados"]: the ids of the last Limite rounds of the endpoint
Resultados(latest) ==
    LET first == Max(1, latest - Limite + 1)
    IN  [i \in 1..(latest - first + 1) |-> first + i - 1]

\* the for loop over resultados: the rows of the rounds not in seen
Novos(resultados, seen_ids) == SelectSeq(resultados, LAMBDA rid : rid \notin seen_ids)

\* seen = set(list(seen)[-80_000:]): a set has no order of insertion, the
\* list of it is in hash order, and its tail is some SeenKeep of the ids
Trimmed(seen_ids) == {kept \in SUBSET seen_ids : Cardinality(kept) = SeenKeep}

InitCollector ==
    /\ pc = "poll"
    /\ op = "collector.main"
    /\ arg = Empty
    /\ ret = NoRet
    /\ metrics_dict = Empty /\ bds_m = 0 /\ out_dir = Empty
    /\ results = Empty /\ stats_df = Empty /\ cut_i = 0
    /\ np_random = 0 /\ remembered = Empty
    \* load_state() without a state file
    /\ seen = {}
    /\ endpoint = 0
    /\ last_size = -1 /\ last_alert = Empty

\* the body of the try block when nothing raises: fetch, collect the rounds
\* not seen, append them to both files, trim and save the ids
CollectorPoll ==
    /\ pc = "poll" /\ op = "collector.main"
    /\ LET novos == Novos(Resultados(endpoint), seen)
           added == seen \cup {novos[i] : i \in 1..Len(novos)}
           raw == FileRows(out_dir, "live_raw.jsonl")
           csv == FileRows(out_dir, "live_rollup.csv")
       IN  /\ Len(raw) + Len(novos) <= MaxAppended
           /\ IF novos # <<>>
              THEN /\ IF Cardinality(added) > SeenLimit
                      THEN seen' \in Trimmed(added)
                      ELSE seen' = added
                   /\ out_dir' = DictPut(DictPut(DictPut(out_dir,
                                    "live_raw.jsonl", raw \o novos),
                                    "live_rollup.csv", csv \o novos),
                                    "collector_state.json", seen')
              ELSE UNCHANGED <<seen, out_dir>>
    /\ pc' = "sleep"
    /\ UNCHANGED <<op, arg, ret, cliVars, sweepVars, sessionVars, endpoint, monitorVars>>

\* fetch_endpoint raises a requests.RequestException: the first handler
\* prints it
CollectorHttpError ==
    /\ pc = "poll" /\ op = "collector.main"
    /\ pc' = "sleep"
    /\ UNCHANGED <<op, arg, ret, mainVars>>

\* the try block raises another exception (a payload that is no dict, an
\* item that is no dict): the second handler formats type(e)._name_, which
\* raises AttributeError out of the handler and out of main
CollectorOtherError ==
    /\ pc = "poll" /\ op = "collector.main"
    /\ ret' = Raised("AttributeError")
    /\ pc' = "raised"
    /\ UNCHANGED <<op, arg, mainVars>>

\* time.sleep(POLL_SECONDS)
CollectorSleep ==
    /\ pc = "sleep" /\ op = "collector.main"
    /\ pc' = "poll"
    /\ UNCHANGED <<op, arg, ret, mainVars>>

\* a round of the game ends: the endpoint has one more round
RoundEnds ==
    /\ op = "collector.main" /\ pc \in {"poll", "sleep"}
    /\ endpoint < MaxRound
    /\ endpoint' = endpoint + 1
    /\ UNCHANGED <<pc, op, arg, ret, cliVars, sweepVars, out_dir, sessionVars, seen,
                   monitorVars>>

NextCollector ==
    \/ CollectorPoll \/ CollectorHttpError \/ CollectorOtherError
    \/ CollectorSleep \/ RoundEnds

SpecCollector == InitCollector /\ [][NextCollector]_vars

(***************************************************************************)
(* live_monitor.py: the polling loop of main                   SpecMonitor *)
(*                                                                         *)
(* live_rollup.csv is its column multiplicador, one number per row, in     *)
(* the order the collector appended the rows.                              *)
(***************************************************************************)
MONITOR_CUTS == <<2, 5, 10, 20>>
\* K_TRIGGERS.get(cut, None), with every cut of CUTS a key
K_TRIGGERS(cut) ==
    CASE cut = 2 -> 8 [] cut = 5 -> 15 [] cut = 10 -> 20 [] cut = 20 -> 25
CHUNK_READ_ROWS == 1000
\* the rows the collector writes while the monitor is watched
MaxRows == 17
\* how many of them are not below every cut
MaxOthers == 1
\* a multiplier below every cut, and the others: below some cuts, below none
LowRow == 1
OtherRows == {3, 25}

\* df.tail(n_rows) of tail_csv
tail_csv(rows, n_rows) ==
    IF Len(rows) <= n_rows THEN rows ELSE SubSeq(rows, Len(rows) - n_rows + 1, Len(rows))

\* compute_runs: the length of the run of True at the end of the mask
RECURSIVE compute_runs(_)
compute_runs(series_bool) ==
    IF Len(series_bool) = 0 THEN 0
    ELSE IF series_bool[Len(series_bool)]
         THEN 1 + compute_runs(SubSeq(series_bool, 1, Len(series_bool) - 1))
         ELSE 0

\* last_alert.get(key) != k_run_low (get gives None without the key)
AlertDiffers(alerts, key, k_run_low) ==
    key \notin DOMAIN alerts \/ alerts[key] # k_run_low

\* "for cut in CUTS" from the i-th cut on: the alert rule of each cut, with
\* the alerts and the log as the cuts before left them; stamp is the time of
\* log_event, told by the rows the poll has read
RECURSIVE AlertLoop(_, _, _, _, _)
AlertLoop(i, mult, alerts, log, stamp) ==
    IF i > Len(MONITOR_CUTS) THEN [alerts |-> alerts, log |-> log]
    ELSE LET cut == MONITOR_CUTS[i]
             lows_mask == [j \in 1..Len(mult) |-> mult[j] < cut]
             k_run_low == compute_runs(lows_mask)
         IN  IF k_run_low >= K_TRIGGERS(cut) /\ AlertDiffers(alerts, cut, k_run_low)
             THEN AlertLoop(i + 1, mult, DictPut(alerts, cut, k_run_low),
                            Append(log, [cut |-> cut, k_run_low |-> k_run_low,
                                         time |-> stamp]),
                            stamp)
             ELSE AlertLoop(i + 1, mult, alerts, log, stamp)

InitMonitor ==
    /\ pc = "loop"
    /\ op = "live_monitor.main"
    /\ arg = Empty
    /\ ret = NoRet
    /\ metrics_dict = Empty /\ bds_m = 0 /\ out_dir = Empty
    /\ results = Empty /\ stats_df = Empty /\ cut_i = 0
    /\ np_random = 0 /\ remembered = Empty
    /\ seen = {} /\ endpoint = 0
    /\ last_size = -1
    /\ last_alert = Empty

\* one pass of "while True": nothing without the file or with its size
\* unchanged; else the file is read and every cut is looked at
MonitorPoll ==
    /\ pc = "loop" /\ op = "live_monitor.main"
    /\ IF "live_rollup.csv" \notin DOMAIN out_dir
          \/ Len(out_dir["live_rollup.csv"]) = last_size
       THEN UNCHANGED <<last_size, last_alert, out_dir>>
       ELSE LET rows == out_dir["live_rollup.csv"]
                mult == ToNumeric(tail_csv(rows, CHUNK_READ_ROWS))
                r == AlertLoop(1, mult, last_alert,
                               FileRows(out_dir, "live_signals.jsonl"), Len(rows))
            IN  /\ last_size' = Len(rows)
                /\ IF Len(mult) = 0
                   THEN UNCHANGED <<last_alert, out_dir>>
                   ELSE /\ last_alert' = r.alerts
                        /\ out_dir' = IF r.log = <<>> THEN out_dir
                                      ELSE DictPut(out_dir, "live_signals.jsonl", r.log)
    /\ UNCHANGED <<pc, op, arg, ret, cliVars, sweepVars, sessionVars, collectorVars>>

\* the collector appends the row of a round to live_rollup.csv
RollupAppend ==
    /\ pc = "loop" /\ op = "live_monitor.main"
    /\ LET rows == FileRows(out_dir, "live_rollup.csv")
           others == Cardinality({j \in 1..Len(rows) : rows[j] # LowRow})
       IN  /\ Len(rows) < MaxRows
           /\ \E v \in {LowRow} \cup OtherRows :
                 /\ v # LowRow => others < MaxOthers
                 /\ out_dir' = DictPut(out_dir, "live_rollup.csv", Append(rows, v))
    /\ UNCHANGED <<pc, op, arg, ret, cliVars, sweepVars, otherVars>>

NextMonitor == MonitorPoll \/ RollupAppend

SpecMonitor == InitMonitor /\ [][NextMonitor]_vars

\* C21: bds_test is deterministic and call-independent: a call with the same
\* series, m, eps and max_pairs as a remembered earlier call returns the
\* identical result, whatever calls and other uses of random numbers came in
\* between; every call draws from its own generator seeded with 123 and the
\* process-wide generator is neither read nor advanced by it
C21_BdsDeterministic ==
    /\ (pc = "session" /\ remembered # Empty /\ arg = remembered[1].arg)
          => ret = remembered[1].ret
    /\ (pc = "session" /\ arg # Empty)
          => \A shared \in 0..(RngStates - 1) :
                ret = bds_test_drawn(arg.series, arg.m, arg.eps, arg.max_pairs, shared)

\* a remembered call is repeated after the process-wide generator has moved,
\* on a series whose result depends on the sampled pairs
C21_Witness ==
    /\ pc = "session" /\ remembered # Empty /\ arg = remembered[1].arg
    /\ ret.status = "returned" /\ ~ret.value.stat.nan
    /\ np_random # default_rng(BDS_SEED)


\* C22: the histogram entropy of a constant non-empty series is exactly 0, for
\* every length and every bin count (bins >= 1): entropy_bits of dist_summary
\* and the Shannon entropy of the basic metrics
C22_ConstantEntropyZero ==
    /\ (Done("dist_summary") /\ IsConstant(ToNumeric(arg.series)) /\ arg.bins >= 1)
          => (ret.status = "returned" /\ ret.value.entropy_bits = Ratio(0, 1))
    /\ (Done("_shannon_entropy_bits") /\ IsConstant(SelectSeq(arg.series, IsFinite)))
          => ret = Returned(Ratio(0, 1))

\* dist_summary has summarised a constant series of several values into
\* several bins
C22_Witness ==
    /\ Done("dist_summary") /\ IsConstant(ToNumeric(arg.series))
    /\ Len(ToNumeric(arg.series)) >= 3 /\ arg.bins >= 2
    /\ ret.status = "returned" /\ ret.value.entropy_bits = Ratio(0, 1)

\* the Shannon entropy of a constant array has been computed
C22_WitnessCore ==
    /\ Done("_shannon_entropy_bits") /\ Len(arg.series) >= 3
    /\ IsConstant(SelectSeq(arg.series, IsFinite)) /\ ret = Returned(Ratio(0, 1))


\* the values of x that differ from the cut, in series order, as symbols
TieRemoved(x, thr) ==
    LET kept == SelectSeq(x, LAMBDA v : v * thr.den # thr.num)
    IN  [i \in 1..Len(kept) |-> IF kept[i] * thr.den > thr.num THEN "above" ELSE "below"]
\* the number of maximal blocks of equal symbols: the positions where a block
\* starts
Blocks(s) == Cardinality({i \in 1..Len(s) : i = 1 \/ s[i] # s[i - 1]})

\* C23: runs_test binarizes against the cut with ties excluded: n_above is
\* the number of values above the cut, n_below the number below it (values
\* equal to the cut are in neither), and when both are positive runs is the
\* number of maximal blocks of equal symbols of the tie-removed sequence in
\* series order, hence 2 <= runs <= n_above + n_below
C23_RunsTestTiesExcluded ==
    Done("runs_test") =>
        LET x == ToNumeric(arg.series)
            thr == Threshold(x, arg.cut)
            above == {i \in 1..Len(x) : x[i] * thr.den > thr.num}
            below == {i \in 1..Len(x) : x[i] * thr.den < thr.num}
            r == ret.value
        IN  /\ ret.status = "returned"
            /\ r.n_above = Cardinality(above)
            /\ r.n_below = Cardinality(below)
            /\ (above # {} /\ below # {}) =>
                  /\ r.runs = Ratio(Blocks(TieRemoved(x, thr)), 1)
                  /\ 2 <= r.runs.num /\ r.runs.num <= r.n_above + r.n_below

\* a value equal to the cut stands between two values above it: the tie is
\* dropped and the two belong to one run
C23_Witness ==
    /\ Done("runs_test") /\ arg.cut.kind = "num"
    /\ \E i \in 2..(Len(arg.series) - 1) :
          /\ arg.series[i] = arg.cut.val
          /\ arg.series[i - 1] > arg.cut.val /\ arg.series[i + 1] > arg.cut.val
    /\ ret.value.n_above = 2 /\ ret.value.n_below = 1
    /\ ret.value.runs = Ratio(2, 1)

\* the result runs_test gives on a sequence of signs of non-zero differences:
\* an ascent is a value above the cut, a descent one below it, after one
\* value equal to the cut; without any difference, on the empty series
OnSigns(x) ==
    LET d == SelectSeq([i \in 1..(Len(x) - 1) |-> x[i + 1] - x[i]], LAMBDA v : v # 0)
        signs == [i \in 1..Len(d) |-> IF d[i] > 0 THEN 2 ELSE 0]
    IN  IF Len(x) < 2 THEN runs_test(<<>>, [kind |-> "num", val |-> 1]).value
        ELSE runs_test(<<1>> \o signs, [kind |-> "num", val |-> 1]).value

\* C24: runs_up_down drops zero first differences entirely: n_up is the
\* number of positive first differences, n_down the number of negative ones,
\* their sum the number of non-zero ones, and runs, z and pvalue are what
\* runs_test gives on the sequence of signs of the non-zero differences
C24_RunsUpDownAsRunsTest ==
    Done("runs_up_down") =>
        LET x == ToNumeric(arg.series)
            ups == {i \in 1..(Len(x) - 1) : x[i + 1] > x[i]}
            downs == {i \in 1..(Len(x) - 1) : x[i + 1] < x[i]}
            r == ret.value
            t == OnSigns(x)
        IN  /\ ret.status = "returned"
            /\ r.n_up = Cardinality(ups)
            /\ r.n_down = Cardinality(downs)
            /\ r.n_up + r.n_down = Cardinality({i \in 1..(Len(x) - 1) : x[i + 1] # x[i]})
            /\ r.runs = t.runs /\ r.z = t.z /\ r.pvalue = t.pvalue
            /\ r.n_up = t.n_above /\ r.n_down = t.n_below

\* an ascent, a zero difference and a descent: the zero difference is
\* dropped, two runs remain
C24_Witness ==
    /\ Done("runs_up_down") /\ Len(arg.series) = 4 /\ NoMissing(arg.series)
    /\ arg.series[2] > arg.series[1] /\ arg.series[3] = arg.series[2]
    /\ arg.series[4] < arg.series[3]
    /\ ret.value.n_up = 1 /\ ret.value.n_down = 1 /\ ret.value.runs = Ratio(2, 1)

\* runs_up_down has computed z from three or more non-zero differences
C24_WitnessZ ==
    /\ Done("runs_up_down") /\ ret.value.n_up + ret.value.n_down >= 3
    /\ ~ret.value.z.nan


\* a common denominator of the probabilities of a curve, and each of them,
\* their sum, least and greatest over it
CurveDen(curve) == ProdOver([k \in DOMAIN curve |-> curve[k].den], DOMAIN curve)
CurveNums(curve) ==
    [k \in DOMAIN curve |-> curve[k].num * (CurveDen(curve) \div curve[k].den)]
CurveSum(curve) == SumOver(CurveNums(curve), DOMAIN curve)
CurveLeast(curve) ==
    CHOOSE v \in {CurveNums(curve)[k] : k \in DOMAIN curve} :
        \A k \in DOMAIN curve : v <= CurveNums(curve)[k]
CurveGreatest(curve) ==
    CHOOSE v \in {CurveNums(curve)[k] : k \in DOMAIN curve} :
        \A k \in DOMAIN curve : v >= CurveNums(curve)[k]
\* the number a rounded statistic of a row stands for, over CurveDen: the
\* rational under np.round, or the named numpy reduction of its curve
RowNumber(v, den) == v.is[2].num * (den \div v.is[2].den)
\* the row of one cut as the table is stated to hold it
StatedRow(row, entries, cut, h) ==
    /\ row.cut = cut /\ row.h = h
    /\ row.n_k = Cardinality(DOMAIN entries)
    /\ IF DOMAIN entries = {}
       THEN /\ row.mean.nan /\ row.std.nan /\ row.var.nan
            /\ row.min_val.nan /\ row.max_val.nan /\ row.amplitude.nan
       ELSE LET n == row.n_k
                den == CurveDen(entries)
                least == RowNumber(row.min_val, den)
                greatest == RowNumber(row.max_val, den)
            IN  \* every statistic is taken over the entries at h_target
                /\ row.mean = Round8(Symbolic(<<"xs.mean()", entries>>))
                /\ row.std = Round8(Symbolic(<<"xs.std(ddof=0)", entries>>))
                /\ row.var = Round8(Symbolic(<<"xs.var(ddof=0)", entries>>))
                /\ row.amplitude = Round8(Symbolic(<<"xs.max() - xs.min()", entries>>))
                /\ least = CurveLeast(entries) /\ greatest = CurveGreatest(entries)
                \* min_val <= mean <= max_val, with mean = sum / n
                /\ n * least <= CurveSum(entries)
                /\ CurveSum(entries) <= n * greatest

\* C25: for every mapping cut -> horizon -> k -> probability,
\* stats_table_for_cuts returns exactly one row per cut, sorted by cut, each
\* computed only from that cut's entries at h_target: n_k is the number of
\* those entries, min_val <= mean <= max_val, amplitude = max_val - min_val
\* and var = std^2 are the population statistics of them; a cut without
\* entries at h_target gets n_k = 0 and undefined statistics
C25_OneRowPerCut ==
    Done("stats_table_for_cuts") =>
        /\ ret.status = "returned"
        /\ LET rows == ret.value
               res == arg.results
           IN  /\ Len(rows) = Cardinality(DOMAIN res)
               /\ {rows[i].cut : i \in 1..Len(rows)} = DOMAIN res
               /\ \A i \in 1..(Len(rows) - 1) : rows[i].cut < rows[i + 1].cut
               /\ \A i \in 1..Len(rows) :
                     LET by_h == res[rows[i].cut]
                     IN  StatedRow(rows[i],
                                   IF arg.h_target \in DOMAIN by_h
                                   THEN by_h[arg.h_target] ELSE Empty,
                                   rows[i].cut, arg.h_target)

\* the same for the mappings with at least one cut
C25_OneRowPerCutOfSome ==
    (Done("stats_table_for_cuts") /\ DOMAIN arg.results # {}) => C25_OneRowPerCut


\* C26: every SlidingResult returned by sliding_signal_k_lows is internally
\* consistent: positions and hit have the same length, total_sinais is that
\* length, positions are strictly increasing indices of the categorical
\* sequence, hit[j] is the 0/1 outcome of the signal at positions[j], and
\* prob_empirica is sum(hit) / total_sinais when there is a signal and
\* undefined (nan) when there is none
C26_SlidingResultConsistent ==
    Done("sliding_signal_k_lows") =>
        /\ ret.status = "returned"
        /\ LET r == ret.value
               cats == to_categories(arg.series, arg.cfg.low_th, arg.cfg.high_th)
               n == Len(cats)
               total == r.total_sinais
           IN  /\ Len(r.positions) = total /\ Len(r.hit) = total
               /\ \A j \in 1..total : 0 <= r.positions[j] /\ r.positions[j] < n
               /\ \A j \in 1..(total - 1) : r.positions[j] < r.positions[j + 1]
               /\ \A j \in 1..total :
                     /\ r.hit[j] \in {0, 1}
                     /\ r.hit[j] = 1 <=>
                           \E i \in r.positions[j]..(r.positions[j] + arg.cfg.horizon - 1) :
                               i < n /\ At(cats, i) = HIGH
               /\ IF total > 0
                  THEN /\ ~r.prob_empirica.nan
                       /\ r.prob_empirica.num * total = SumSeq(r.hit) * r.prob_empirica.den
                  ELSE r.prob_empirica.nan

\* two signals were recorded, one followed by a HIGH and one not
C26_Witness ==
    /\ Done("sliding_signal_k_lows") /\ ret.status = "returned"
    /\ ret.value.total_sinais >= 2
    /\ \E i, j \in 1..Len(ret.value.hit) : ret.value.hit[i] = 1 /\ ret.value.hit[j] = 0
    /\ ret.value.prob_empirica = Ratio(SumSeq(ret.value.hit), ret.value.total_sinais)

\* no window gave a signal although the scan had positions to visit
C26_WitnessNoSignal ==
    /\ Done("sliding_signal_k_lows") /\ ret.value.total_sinais = 0
    /\ Len(arg.series) > arg.cfg.window + arg.cfg.horizon
    /\ ret.value.prob_empirica.nan


\* the indices the scan of p_high_after_k_lows counts as trials
ScanTrials(cats, k, horizon) ==
    {i \in ScanRange(Len(cats), k, horizon) : KLowsBefore(cats, k, i)}

\* C27: for a fixed category sequence and horizon the trial count of
\* p_high_after_k_lows is non-increasing in k: total(k + 1) <= total(k) for
\* every k >= 1, every trial index for k + 1 is a trial index for k, and
\* once k >= n - horizon the total is 0
C27_TrialsNonIncreasingInK ==
    (Done("p_high_after_k_lows") /\ arg.k >= 1 /\ arg.horizon >= 1) =>
        LET longer == p_high_after_k_lows(arg.cats, arg.k + 1, arg.horizon)
        IN  /\ ret.status = "returned" /\ longer.status = "returned"
            /\ ret.value.total = Cardinality(ScanTrials(arg.cats, arg.k, arg.horizon))
            /\ longer.value.total <= ret.value.total
            /\ ScanTrials(arg.cats, arg.k + 1, arg.horizon)
                  \subseteq ScanTrials(arg.cats, arg.k, arg.horizon)
            /\ arg.k >= Len(arg.cats) - arg.horizon => ret.value.total = 0

\* a longer run is asked for and fewer trials, but still some, are counted
C27_Witness ==
    /\ Done("p_high_after_k_lows") /\ arg.k >= 1 /\ arg.horizon >= 1
    /\ ret.status = "returned"
    /\ LET longer == p_high_after_k_lows(arg.cats, arg.k + 1, arg.horizon)
       IN  0 < longer.value.total /\ longer.value.total < ret.value.total

\* k has reached n - horizon on a sequence of LOW only: no trial is counted
C27_WitnessNoTrial ==
    /\ Done("p_high_after_k_lows") /\ arg.k >= 1 /\ arg.horizon >= 1
    /\ Len(arg.cats) >= 2 /\ AllEq(arg.cats, LOW)
    /\ arg.k = Len(arg.cats) - arg.horizon
    /\ ret.value.total = 0


\* no id stands twice in the rows of a file
NoRepeat(rows) == \A i, j \in 1..Len(rows) : i # j => rows[i] # rows[j]

\* C28: over any sequence of polls of one run of collector.main each round
\* id is appended to live_raw.jsonl and to live_rollup.csv at most once,
\* also after the set of seen ids has passed its limit and been trimmed while
\* the endpoint keeps returning its most recent rounds
C28_EachRoundAppendedOnce ==
    op = "collector.main" =>
        /\ NoRepeat(FileRows(out_dir, "live_raw.jsonl"))
        /\ NoRepeat(FileRows(out_dir, "live_rollup.csv"))

\* the same while the set of seen ids has never been trimmed
C28_OnceBeforeAnyTrim ==
    (/\ op = "collector.main"
     /\ \A i \in 1..Len(FileRows(out_dir, "live_raw.jsonl")) :
           FileRows(out_dir, "live_raw.jsonl")[i] \in seen) =>
        C28_EachRoundAppendedOnce

\* C29: an exception raised while fetching or processing one poll of
\* collector.main, an HTTP error or any other, is handled inside that
\* iteration and the loop sleeps and polls again: every step that leaves the
\* poll goes to the sleep, none out of the loop
C29_PollExceptionsHandled ==
    [][(op = "collector.main" /\ pc = "poll" /\ pc' # "poll") => pc' = "sleep"]_vars


\* the run of rows below the cut at the end of the file
TrailingLows(rows, cut) == compute_runs([j \in 1..Len(rows) |-> rows[j] < cut])

\* C30: for each cut, every new streak of lows that reaches the trigger of
\* the cut has an alert logged at the first poll that observes a trailing
\* run >= trigger for it: whenever the monitor has read the file as it is
\* and the trailing run of a cut is at or over its trigger, the log holds an
\* alert of that cut written during that streak; and polls that observe an
\* unchanged run log no alert twice
C30_EveryStreakAlertedOnce ==
    (op = "live_monitor.main" /\ "live_rollup.csv" \in DOMAIN out_dir
       /\ last_size = Len(out_dir["live_rollup.csv"])) =>
        LET rows == out_dir["live_rollup.csv"]
            log == FileRows(out_dir, "live_signals.jsonl")
        IN  /\ \A i \in 1..Len(MONITOR_CUTS) :
                  LET cut == MONITOR_CUTS[i]
                      k == TrailingLows(rows, cut)
                  IN  k >= K_TRIGGERS(cut) =>
                        \E e \in 1..Len(log) :
                            log[e].cut = cut /\ log[e].time > Len(rows) - k
            /\ \A e, f \in 1..Len(log) : e # f => log[e] # log[f]

\* the same for the first streak of the file
C30_FirstStreakAlertedOnce ==
    (/\ op = "live_monitor.main" /\ "live_rollup.csv" \in DOMAIN out_dir
     /\ \A j \in 1..Len(out_dir["live_rollup.csv"]) :
           out_dir["live_rollup.csv"][j] = LowRow) =>
        C30_EveryStreakAlertedOnce

====
